---- MODULE Spec2Model ----
(***************************************************************************)
(* simple-smartsheet: the in-memory Sheet aggregate.  A Sheet owns an      *)
(* ordered list of Columns and an ordered list of Rows, keeps lookups from *)
(* column id / title to Column and from row number / id to Row, every Row  *)
(* keeps lookups from column id / title to one of its Cells, and           *)
(* build_index / get_row / get_rows keep and query composite indexes over  *)
(* the rows.                                                               *)
(*                                                                         *)
(* Objects are modelled by identity: a Column is its position in           *)
(* sheet.columns, a Cell is its position in row.cells, a Row carries an    *)
(* object identity oid.  A Python dict is a function whose DOMAIN is the   *)
(* set of keys; sheet.indexes, whose iteration order the code relies on,   *)
(* is the sequence of its items in insertion order.                        *)
(***************************************************************************)
EXTENDS Integers, Sequences, FiniteSets, TLC

VARIABLES
    columns,                 \* sheet.columns: sequence of [id, title]
    column_title_to_column,  \* sheet._column_title_to_column: title -> position in columns
    column_id_to_column,     \* sheet._column_id_to_column: id -> position in columns
    rows,                    \* sheet.rows: sequence of Row objects
    row_num_to_row,          \* sheet._row_num_to_row: row number -> oid
    row_id_to_row,           \* sheet._row_id_to_row: row id -> oid
    indexes,                 \* sheet.indexes: items in insertion order
    result                   \* the last call and how it ended

vars == <<columns, column_title_to_column, column_id_to_column, rows,
          row_num_to_row, row_id_to_row, indexes, result>>

-----------------------------------------------------------------------------
(* Bounds of the model *)

MaxColumns == 2     \* columns of a sheet whose cell lookups are examined
MaxCells == 2       \* cells of a row whose cell lookups are examined
MaxRows == 3        \* rows of an indexed sheet
MaxSpecs == 1       \* index specs in one build_index call
MaxRepeat == 2      \* times one row is held by one list of a non-unique index

-----------------------------------------------------------------------------
(* Values *)

\* Column titles in ascending string order (the order sorted() puts them in).
TitleSeq == <<"a", "b">>
Titles == {TitleSeq[i] : i \in DOMAIN TitleSeq}
NoTitle == "None"            \* title is None / argument not supplied
ColumnIds == {1, 2}
UnknownId == Cardinality(ColumnIds) + 1   \* a column id no column of the sheet carries
NoId == 0 - 1                \* id is None / argument not supplied
Values == {"x", "y"}         \* cell values
\* the values the cells of a column take in the sheets and filters examined
ValuesOf(title) == IF title = TitleSeq[1] THEN Values ELSE {"y"}
NoValue == "null"            \* cell.value is None
NoFilter == {<<NoTitle, NoValue>>}   \* filter is None / argument not supplied

EmptyDict == [k \in {} |-> 0]

\* d[k] = v on a Python dict
DictSet(d, k, v) == [x \in (DOMAIN d) \cup {k} |-> IF x = k THEN v ELSE d[x]]

-----------------------------------------------------------------------------
(* _SheetBase._update_column_lookup *)

RECURSIVE ColumnLookupFrom(_, _, _, _)
\* the loop over sheet.columns from position i on; returns <<by title, by id>>
ColumnLookupFrom(cols, i, byTitle, byId) ==
    IF i > Len(cols) THEN <<byTitle, byId>>
    ELSE IF cols[i].id = NoId
         THEN ColumnLookupFrom(cols, i + 1, byTitle, byId)
         ELSE IF cols[i].title = NoTitle
              THEN ColumnLookupFrom(cols, i + 1, byTitle, DictSet(byId, cols[i].id, i))
              ELSE ColumnLookupFrom(cols, i + 1,
                                    DictSet(byTitle, cols[i].title, i),
                                    DictSet(byId, cols[i].id, i))

UpdateColumnLookup(cols) == ColumnLookupFrom(cols, 1, EmptyDict, EmptyDict)

\* get_column(column_title=..., column_id=...): the position of the column
\* in sheet.columns; a key the lookup does not hold raises KeyError
get_column(byTitle, byId, column_title, column_id) ==
    IF column_title # NoTitle
    THEN IF column_title \in DOMAIN byTitle
         THEN [kind |-> "column", column |-> byTitle[column_title]]
         ELSE [kind |-> "KeyError", column |-> 0]
    ELSE IF column_id # NoId
         THEN IF column_id \in DOMAIN byId
              THEN [kind |-> "column", column |-> byId[column_id]]
              ELSE [kind |-> "KeyError", column |-> 0]
         ELSE [kind |-> "ValueError", column |-> 0]

\* make_cell(column_title, field_value): Cell(column_id=column.id,
\* value=field_value) for the column get_column returns
make_cell(byTitle, byId, cols, column_title, field_value) ==
    LET c == get_column(byTitle, byId, column_title, NoId)
    IN  IF c.kind = "column"
        THEN [kind |-> "cell", column_id |-> cols[c.column].id, value |-> field_value]
        ELSE [kind |-> c.kind, column_id |-> NoId, value |-> field_value]

-----------------------------------------------------------------------------
(* _RowBase._update_cell_lookup *)

RECURSIVE CellLookupKeepingFirst(_, _, _, _, _, _)
\* A variant of the loop below in which a key a lookup already holds keeps
\* its cell (setdefault in place of assignment): the first cell of a column
\* wins, where the code lets the last one win.
CellLookupKeepingFirst(cells, i, byTitle, byId, cols, colById) ==
    IF i > Len(cells) THEN [ok |-> TRUE, byTitle |-> byTitle, byId |-> byId]
    ELSE IF cells[i].column_id = NoId
         THEN CellLookupKeepingFirst(cells, i + 1, byTitle, byId, cols, colById)
         ELSE IF cells[i].column_id \notin DOMAIN colById
              THEN [ok |-> FALSE, byTitle |-> byTitle, byId |-> byId]
              ELSE LET title == cols[colById[cells[i].column_id]].title
                       byId2 == IF cells[i].column_id \in DOMAIN byId THEN byId
                                ELSE DictSet(byId, cells[i].column_id, i)
                       byTitle2 == IF title = NoTitle \/ title \in DOMAIN byTitle
                                   THEN byTitle
                                   ELSE DictSet(byTitle, title, i)
                   IN  CellLookupKeepingFirst(cells, i + 1, byTitle2, byId2, cols, colById)

RECURSIVE CellLookupFrom(_, _, _, _, _, _)
\* the loop over row.cells from position i on, against the sheet's columns
\* and its id lookup; get_column(column_id=...) raises KeyError on an id the
\* lookup does not hold, and the two dicts keep what was stored before it.
CellLookupFrom(cells, i, byTitle, byId, cols, colById) ==
    IF i > Len(cells) THEN [ok |-> TRUE, byTitle |-> byTitle, byId |-> byId]
    ELSE IF cells[i].column_id = NoId
         THEN CellLookupFrom(cells, i + 1, byTitle, byId, cols, colById)
         ELSE IF cells[i].column_id \notin DOMAIN colById
              THEN [ok |-> FALSE, byTitle |-> byTitle, byId |-> byId]
              ELSE LET title == cols[colById[cells[i].column_id]].title
                       byId2 == DictSet(byId, cells[i].column_id, i)
                   IN  IF title # NoTitle
                       THEN CellLookupFrom(cells, i + 1, DictSet(byTitle, title, i),
                                           byId2, cols, colById)
                       ELSE CellLookupFrom(cells, i + 1, byTitle, byId2, cols, colById)

UpdateCellLookup(row, cols, colById) ==
    LET r == CellLookupFrom(row.cells, 1, EmptyDict, EmptyDict, cols, colById)
    IN  [ok |-> r.ok,
         row |-> [row EXCEPT !.column_title_to_cell = r.byTitle,
                             !.column_id_to_cell = r.byId]]

-----------------------------------------------------------------------------
(* _SheetBase._update_row_cell_lookup *)

RECURSIVE RowCellLookupFrom(_, _, _, _, _, _)
\* the loop over sheet.rows from position i on; a KeyError of a row's
\* _update_cell_lookup ends it with the later rows untouched.
RowCellLookupFrom(rws, i, byNum, byId, cols, colById) ==
    IF i > Len(rws) THEN [ok |-> TRUE, rows |-> rws, byNum |-> byNum, byId |-> byId]
    ELSE LET byNum2 == IF rws[i].num # NoId /\ rws[i].num # 0
                       THEN DictSet(byNum, rws[i].num, rws[i].oid) ELSE byNum
             byId2 == IF rws[i].id # NoId /\ rws[i].id # 0
                      THEN DictSet(byId, rws[i].id, rws[i].oid) ELSE byId
             u == UpdateCellLookup(rws[i], cols, colById)
             rws2 == [rws EXCEPT ![i] = u.row]
         IN  IF u.ok
             THEN RowCellLookupFrom(rws2, i + 1, byNum2, byId2, cols, colById)
             ELSE [ok |-> FALSE, rows |-> rws2, byNum |-> byNum2, byId |-> byId2]

UpdateRowCellLookup(rws, cols, colById) ==
    RowCellLookupFrom(rws, 1, EmptyDict, EmptyDict, cols, colById)

-----------------------------------------------------------------------------
(* _RowBase.get_cell *)

\* A variant of get_cell that tests column_id before column_title, so that
\* a call supplying both answers from the id lookup.
GetCellByIdFirst(row, column_title, column_id) ==
    IF column_id # NoId
    THEN IF column_id \in DOMAIN row.column_id_to_cell
         THEN [kind |-> "cell", cell |-> row.column_id_to_cell[column_id]]
         ELSE [kind |-> "KeyError", cell |-> 0]
    ELSE IF column_title # NoTitle
         THEN IF column_title \in DOMAIN row.column_title_to_cell
              THEN [kind |-> "cell", cell |-> row.column_title_to_cell[column_title]]
              ELSE [kind |-> "KeyError", cell |-> 0]
         ELSE [kind |-> "ValueError", cell |-> 0]

GetCell(row, column_title, column_id) ==
    IF column_title # NoTitle
    THEN IF column_title \in DOMAIN row.column_title_to_cell
         THEN [kind |-> "cell", cell |-> row.column_title_to_cell[column_title]]
         ELSE [kind |-> "KeyError", cell |-> 0]
    ELSE IF column_id # NoId
         THEN IF column_id \in DOMAIN row.column_id_to_cell
              THEN [kind |-> "cell", cell |-> row.column_id_to_cell[column_id]]
              ELSE [kind |-> "KeyError", cell |-> 0]
         ELSE [kind |-> "ValueError", cell |-> 0]

-----------------------------------------------------------------------------
(* _RowBase._update_index and _SheetBase.build_index *)

\* position of the item of sheet.indexes stored under the key cols, 0 if none
IndexPos(idxs, cols) ==
    IF \E i \in DOMAIN idxs : idxs[i].columns = cols
    THEN CHOOSE i \in DOMAIN idxs : idxs[i].columns = cols
    ELSE 0

\* A variant of the registration that keeps what an index registered
\* before holds and replaces its flag only.
RegisterIndexKeepingContents(idxs, spec) ==
    LET item == [columns |-> spec.columns, unique |-> spec.unique, index |-> EmptyDict]
        p == IndexPos(idxs, spec.columns)
    IN  IF p = 0 THEN Append(idxs, item) ELSE [idxs EXCEPT ![p].unique = spec.unique]

\* self.indexes[columns] = {"index": {}, "unique": unique}: a key already
\* present keeps its place in the dict, a new key goes last
RegisterIndex(idxs, spec) ==
    LET item == [columns |-> spec.columns, unique |-> spec.unique, index |-> EmptyDict]
        p == IndexPos(idxs, spec.columns)
    IN  IF p = 0 THEN Append(idxs, item) ELSE [idxs EXCEPT ![p] = item]

RECURSIVE RegisterIndexes(_, _, _)
\* the first loop of build_index, over the specs from position i on
RegisterIndexes(idxs, specs, i) ==
    IF i > Len(specs) THEN idxs
    ELSE RegisterIndexes(RegisterIndex(idxs, specs[i]), specs, i + 1)

\* every column title of the key has a cell in the row's title lookup
HasKey(row, cols) ==
    \A j \in DOMAIN cols : cols[j] \in DOMAIN row.column_title_to_cell

\* tuple(self.get_cell(column_title).value for column_title in index_key)
KeyOf(row, cols) ==
    [j \in DOMAIN cols |-> row.cells[row.column_title_to_cell[cols[j]]].value]

\* A variant of the insertion in which a unique index keeps the row it
\* already holds under the key.
IndexInsertKeepingFirst(item, row) ==
    LET key == KeyOf(row, item.columns)
    IN  IF item.unique
        THEN IF key \in DOMAIN item.index THEN item
             ELSE [item EXCEPT !.index = DictSet(item.index, key, row.oid)]
        ELSE [item EXCEPT !.index =
                 DictSet(item.index, key,
                         IF key \in DOMAIN item.index
                         THEN Append(item.index[key], row.oid)
                         ELSE <<row.oid>>)]

\* the body of the loop of _update_index for one item of sheet.indexes
IndexInsert(item, row) ==
    LET key == KeyOf(row, item.columns)
    IN  IF item.unique
        THEN [item EXCEPT !.index = DictSet(item.index, key, row.oid)]
        ELSE [item EXCEPT !.index =
                 DictSet(item.index, key,
                         IF key \in DOMAIN item.index
                         THEN Append(item.index[key], row.oid)
                         ELSE <<row.oid>>)]

\* A variant of _update_index that passes over an index the row has no key
\* for and raises nothing.
RECURSIVE UpdateIndexSkippingMissingKeys(_, _, _)
UpdateIndexSkippingMissingKeys(idxs, row, i) ==
    IF i > Len(idxs) THEN [ok |-> TRUE, indexes |-> idxs]
    ELSE IF ~HasKey(row, idxs[i].columns)
         THEN UpdateIndexSkippingMissingKeys(idxs, row, i + 1)
         ELSE UpdateIndexSkippingMissingKeys(
                  [idxs EXCEPT ![i] = IndexInsert(idxs[i], row)], row, i + 1)

RECURSIVE UpdateIndexFrom(_, _, _)
\* _update_index of one row: the loop over sheet.indexes.items() from
\* position i on; get_cell raises KeyError at the first key column the row
\* has no cell for, and the items before it have already taken the row.
UpdateIndexFrom(idxs, row, i) ==
    IF i > Len(idxs) THEN [ok |-> TRUE, indexes |-> idxs]
    ELSE IF ~HasKey(row, idxs[i].columns)
         THEN [ok |-> FALSE, indexes |-> idxs]
         ELSE UpdateIndexFrom([idxs EXCEPT ![i] = IndexInsert(idxs[i], row)], row, i + 1)

UpdateIndex(idxs, row) == UpdateIndexFrom(idxs, row, 1)

RECURSIVE ScanRows(_, _, _)
\* the second loop of build_index, over sheet.rows from position i on
ScanRows(idxs, rws, i) ==
    IF i > Len(rws) THEN [ok |-> TRUE, indexes |-> idxs]
    ELSE LET u == UpdateIndex(idxs, rws[i])
         IN  IF u.ok THEN ScanRows(u.indexes, rws, i + 1) ELSE u

build_index(idxs, rws, specs) == ScanRows(RegisterIndexes(idxs, specs, 1), rws, 1)

-----------------------------------------------------------------------------
(* _SheetBase.get_row and _SheetBase.get_rows *)

Rank(title) == CHOOSE i \in DOMAIN TitleSeq : TitleSeq[i] = title

RECURSIVE SortedItems(_)
\* sorted(filter.items()): the (title, value) pairs in ascending title order
SortedItems(items) ==
    IF items = {} THEN <<>>
    ELSE LET m == CHOOSE p \in items : \A q \in items : Rank(p[1]) <= Rank(q[1])
         IN  <<m>> \o SortedItems(items \ {m})

\* columns, query = zip(*sorted(filter.items()))
FilterColumns(filter) == [j \in DOMAIN SortedItems(filter) |-> SortedItems(filter)[j][1]]
FilterQuery(filter) == [j \in DOMAIN SortedItems(filter) |-> SortedItems(filter)[j][2]]

\* A variant of get_row that hands out the row of a non-unique index when
\* the list stored under the query holds exactly one row, and raises
\* IndexNotUnique only otherwise.
get_row_of_single_list(idxs, byNum, byId, row_num, row_id, filter) ==
    IF row_num # NoId
    THEN IF row_num \in DOMAIN byNum
         THEN [kind |-> "row", row |-> byNum[row_num]]
         ELSE [kind |-> "None", row |-> 0]
    ELSE IF row_id # NoId
    THEN IF row_id \in DOMAIN byId
         THEN [kind |-> "row", row |-> byId[row_id]]
         ELSE [kind |-> "None", row |-> 0]
    ELSE IF filter # NoFilter
    THEN IF filter = {}
         THEN [kind |-> "ValueError", row |-> 0]
         ELSE LET p == IndexPos(idxs, FilterColumns(filter))
                  query == FilterQuery(filter)
              IN  IF p = 0 THEN [kind |-> "IndexNotFound", row |-> 0]
                  ELSE IF ~idxs[p].unique
                       THEN IF query \in DOMAIN idxs[p].index /\ Len(idxs[p].index[query]) = 1
                            THEN [kind |-> "row", row |-> idxs[p].index[query][1]]
                            ELSE [kind |-> "IndexNotUnique", row |-> 0]
                  ELSE IF query \in DOMAIN idxs[p].index
                       THEN [kind |-> "row", row |-> idxs[p].index[query]]
                       ELSE [kind |-> "KeyError", row |-> 0]
    ELSE [kind |-> "ValueError", row |-> 0]

\* A variant of get_row that tests row_id before row_num, so that a call
\* supplying both answers by row id.
get_row_by_id_first(idxs, byNum, byId, row_num, row_id, filter) ==
    IF row_id # NoId
    THEN IF row_id \in DOMAIN byId
         THEN [kind |-> "row", row |-> byId[row_id]]
         ELSE [kind |-> "None", row |-> 0]
    ELSE IF row_num # NoId
    THEN IF row_num \in DOMAIN byNum
         THEN [kind |-> "row", row |-> byNum[row_num]]
         ELSE [kind |-> "None", row |-> 0]
    ELSE IF filter # NoFilter
    THEN IF filter = {}
         THEN [kind |-> "ValueError", row |-> 0]
         ELSE LET p == IndexPos(idxs, FilterColumns(filter))
              IN  IF p = 0 THEN [kind |-> "IndexNotFound", row |-> 0]
                  ELSE IF ~idxs[p].unique THEN [kind |-> "IndexNotUnique", row |-> 0]
                  ELSE IF FilterQuery(filter) \in DOMAIN idxs[p].index
                       THEN [kind |-> "row", row |-> idxs[p].index[FilterQuery(filter)]]
                       ELSE [kind |-> "KeyError", row |-> 0]
    ELSE [kind |-> "ValueError", row |-> 0]

get_row(idxs, byNum, byId, row_num, row_id, filter) ==
    IF row_num # NoId
    THEN IF row_num \in DOMAIN byNum
         THEN [kind |-> "row", row |-> byNum[row_num]]
         ELSE [kind |-> "None", row |-> 0]
    ELSE IF row_id # NoId
    THEN IF row_id \in DOMAIN byId
         THEN [kind |-> "row", row |-> byId[row_id]]
         ELSE [kind |-> "None", row |-> 0]
    ELSE IF filter # NoFilter
    THEN IF filter = {}
         THEN [kind |-> "ValueError", row |-> 0]   \* nothing to unpack into columns, query
         ELSE LET p == IndexPos(idxs, FilterColumns(filter))
              IN  IF p = 0 THEN [kind |-> "IndexNotFound", row |-> 0]
                  ELSE IF ~idxs[p].unique THEN [kind |-> "IndexNotUnique", row |-> 0]
                  ELSE IF FilterQuery(filter) \in DOMAIN idxs[p].index
                       THEN [kind |-> "row", row |-> idxs[p].index[FilterQuery(filter)]]
                       ELSE [kind |-> "KeyError", row |-> 0]   \* index[query]
    ELSE [kind |-> "ValueError", row |-> 0]

\* A variant of get_rows that wraps whatever index.get(query) gives for a
\* unique index, the None of a miss included, in a one-element list.
get_rows_wrapping_none(idxs, filter) ==
    IF filter = {}
    THEN [kind |-> "ValueError", rows |-> <<>>]
    ELSE LET p == IndexPos(idxs, FilterColumns(filter))
         IN  IF p = 0 THEN [kind |-> "IndexNotFound", rows |-> <<>>]
             ELSE IF idxs[p].unique
                  THEN IF FilterQuery(filter) \in DOMAIN idxs[p].index
                       THEN [kind |-> "rows", rows |-> <<idxs[p].index[FilterQuery(filter)]>>]
                       ELSE [kind |-> "rows", rows |-> <<0>>]
                  ELSE IF FilterQuery(filter) \in DOMAIN idxs[p].index
                       THEN [kind |-> "rows", rows |-> idxs[p].index[FilterQuery(filter)]]
                       ELSE [kind |-> "rows", rows |-> <<>>]

get_rows(idxs, filter) ==
    IF filter = {}
    THEN [kind |-> "ValueError", rows |-> <<>>]
    ELSE LET p == IndexPos(idxs, FilterColumns(filter))
         IN  IF p = 0 THEN [kind |-> "IndexNotFound", rows |-> <<>>]
             ELSE IF idxs[p].unique
                  THEN IF FilterQuery(filter) \in DOMAIN idxs[p].index
                       THEN [kind |-> "rows", rows |-> <<idxs[p].index[FilterQuery(filter)]>>]
                       ELSE [kind |-> "rows", rows |-> <<>>]
                  ELSE IF FilterQuery(filter) \in DOMAIN idxs[p].index
                       THEN [kind |-> "rows", rows |-> idxs[p].index[FilterQuery(filter)]]
                       ELSE [kind |-> "rows", rows |-> <<>>]

-----------------------------------------------------------------------------
(* Inputs *)

\* sequences over S of length 0..n
RECURSIVE SeqsUpTo(_, _)
SeqsUpTo(S, n) ==
    IF n = 0 THEN {<<>>}
    ELSE LET shorter == SeqsUpTo(S, n - 1)
         IN  shorter \cup {Append(q, e) : q \in shorter, e \in S}

\* Row(id=..., num=..., cells=...): both lookups start as empty dicts
Row(oid, id, num, cells) ==
    [oid |-> oid, id |-> id, num |-> num, cells |-> cells,
     column_title_to_cell |-> EmptyDict, column_id_to_cell |-> EmptyDict]

Cell(column_id, value) == [column_id |-> column_id, value |-> value]

Column(id, title) == [id |-> id, title |-> title]

\* a filter: a dict from column titles to values, as the set of its items
Filters ==
    UNION {{ {<<t, f[t]>> : t \in S} : f \in {g \in [S -> Values] : \A t \in S : g[t] \in ValuesOf(t)}}
              : S \in SUBSET Titles}

\* the keys of index specs: one column, or two columns in either order
IndexKeys == {<<TitleSeq[1]>>, <<TitleSeq[1], TitleSeq[2]>>, <<TitleSeq[2], TitleSeq[1]>>}

IndexSpecs == [columns : IndexKeys, unique : BOOLEAN]

\* the columns of an indexed sheet: ids 1.., titles in TitleSeq order
IndexedColumns == [i \in DOMAIN TitleSeq |-> Column(i, TitleSeq[i])]

\* the cells of a row of an indexed sheet: a value for the first column and,
\* but for one kind of row, one for the second
IndexedCells ==
    {<<Cell(1, "x")>>}
        \cup {<<Cell(1, va), Cell(2, vb)>> :
                  va \in ValuesOf(TitleSeq[1]), vb \in ValuesOf(TitleSeq[2])}

\* rows as the server numbers them: row i has number i and id 10 + i
IndexedRows ==
    {[i \in DOMAIN cs |-> Row(i, 10 + i, i, cs[i])] : cs \in SeqsUpTo(IndexedCells, MaxRows)}

\* the column lists and cell lists of the sheets whose lookups are examined
LookupColumns ==
    SeqsUpTo({Column(id, title) : id \in ColumnIds \cup {NoId},
                                  title \in Titles \cup {NoTitle}}, MaxColumns)
LookupCells ==
    SeqsUpTo({Cell(id, "x") : id \in ColumnIds \cup {UnknownId, NoId}}, MaxCells)

-----------------------------------------------------------------------------
(* The calls *)

sheetVars == <<columns, column_title_to_column, column_id_to_column,
               rows, row_num_to_row, row_id_to_row>>

\* Sheet(columns=cols, rows=rws): __attrs_post_init__ has rebuilt the column
\* lookup and then the row and cell lookups without raising
Constructed(cols, rws) ==
    LET c == UpdateColumnLookup(cols)
        u == UpdateRowCellLookup(rws, cols, c[2])
    IN  /\ u.ok
        /\ columns = cols
        /\ column_title_to_column = c[1]
        /\ column_id_to_column = c[2]
        /\ rows = u.rows
        /\ row_num_to_row = u.byNum
        /\ row_id_to_row = u.byId
        /\ indexes = <<>>
        /\ result = [op |-> "Sheet", kind |-> "ok"]

\* no list of a non-unique index holds one row more than MaxRepeat times
ListsWithin(idxs) ==
    \A i \in DOMAIN idxs : ~idxs[i].unique =>
        \A k \in DOMAIN idxs[i].index :
            \A j \in DOMAIN idxs[i].index[k] :
                Cardinality({h \in DOMAIN idxs[i].index[k] :
                                idxs[i].index[k][h] = idxs[i].index[k][j]}) <= MaxRepeat

\* sheet.build_index(specs)
BuildIndexCall(specs) ==
    LET b == build_index(indexes, rows, specs)
    IN  /\ ListsWithin(b.indexes)
        /\ indexes' = b.indexes
        /\ result' = [op |-> "build_index", specs |-> specs,
                      kind |-> IF b.ok THEN "ok" ELSE "KeyError"]
        /\ UNCHANGED sheetVars

\* sheet.get_row(row_num=..., row_id=..., filter=...)
GetRowCall(row_num, row_id, filter) ==
    LET r == get_row(indexes, row_num_to_row, row_id_to_row, row_num, row_id, filter)
    IN  /\ result' = [op |-> "get_row", row_num |-> row_num, row_id |-> row_id,
                      filter |-> filter, kind |-> r.kind, row |-> r.row]
        /\ UNCHANGED <<sheetVars, indexes>>

\* A variant of the call of get_rows that stores an empty list under a
\* value-tuple a non-unique index does not hold.
GetRowsCallCreatingEntry(filter) ==
    LET r == get_rows(indexes, filter)
        at == IF filter = {} THEN 0 ELSE IndexPos(indexes, FilterColumns(filter))
    IN  /\ result' = [op |-> "get_rows", filter |-> filter,
                      kind |-> r.kind, rows |-> r.rows]
        /\ indexes' = IF at # 0 /\ ~indexes[at].unique
                         /\ FilterQuery(filter) \notin DOMAIN indexes[at].index
                      THEN [indexes EXCEPT ![at].index = DictSet(@, FilterQuery(filter), <<>>)]
                      ELSE indexes
        /\ UNCHANGED sheetVars

\* sheet.get_rows(filter=...)
GetRowsCall(filter) ==
    LET r == get_rows(indexes, filter)
    IN  /\ result' = [op |-> "get_rows", filter |-> filter,
                      kind |-> r.kind, rows |-> r.rows]
        /\ UNCHANGED <<sheetVars, indexes>>

\* sheet._update_row_cell_lookup()
UpdateRowCellLookupCall ==
    LET u == UpdateRowCellLookup(rows, columns, column_id_to_column)
    IN  /\ rows' = u.rows
        /\ row_num_to_row' = u.byNum
        /\ row_id_to_row' = u.byId
        /\ result' = [op |-> "_update_row_cell_lookup",
                      kind |-> IF u.ok THEN "ok" ELSE "KeyError"]
        /\ UNCHANGED <<columns, column_title_to_column, column_id_to_column, indexes>>

\* sheet.rows[i].get_cell(column_title=..., column_id=...)
GetCellCall(i, column_title, column_id) ==
    LET r == GetCell(rows[i], column_title, column_id)
    IN  /\ result' = [op |-> "get_cell", row |-> i, column_title |-> column_title,
                      column_id |-> column_id, kind |-> r.kind, cell |-> r.cell]
        /\ UNCHANGED <<sheetVars, indexes>>

-----------------------------------------------------------------------------
(* Spec: a sheet as loaded from the server, its indexes built and queried *)

Init == \E rws \in IndexedRows : Constructed(IndexedColumns, rws)

BuildIndex == \E specs \in SeqsUpTo(IndexSpecs, MaxSpecs) : BuildIndexCall(specs)

GetRowByFilter == \E filter \in Filters : GetRowCall(NoId, NoId, filter)

GetRows == \E filter \in Filters : GetRowsCall(filter)

Next == BuildIndex \/ GetRowByFilter \/ GetRows

Spec == Init /\ [][Next]_vars

-----------------------------------------------------------------------------
(* SpecGetRow: the three lookup modes of get_row on a loaded sheet *)

BuildFirstColumnIndex ==
    \E unique \in BOOLEAN :
        BuildIndexCall(<<[columns |-> <<TitleSeq[1]>>, unique |-> unique]>>)

GetRow ==
    \E row_num \in {NoId, 1}, row_id \in {NoId, 12}, filter \in Filters \cup {NoFilter} :
        GetRowCall(row_num, row_id, filter)

NextGetRow == BuildFirstColumnIndex \/ GetRow

SpecGetRow == Init /\ [][NextGetRow]_vars

-----------------------------------------------------------------------------
(* SpecFrame: the caller changes sheet.rows and cell values between         *)
(* build_index calls and filter queries                                     *)

\* filters over one column
ColumnFilters == {filter \in Filters : Cardinality(filter) = 1}

\* the identity of the next Row object: none in sheet.rows and none an index
\* still holds has it
NextOid ==
    1 + Len(rows)
      + Cardinality({oid \in 1..(2 * MaxRows) :
                        /\ \E k \in DOMAIN indexes :
                              \/ indexes[k].unique
                                   /\ \E key \in DOMAIN indexes[k].index :
                                         indexes[k].index[key] = oid
                              \/ ~indexes[k].unique
                                   /\ \E key \in DOMAIN indexes[k].index :
                                         \E j \in DOMAIN indexes[k].index[key] :
                                             indexes[k].index[key][j] = oid
                        /\ \A i \in DOMAIN rows : rows[i].oid # oid})

\* sheet.rows.append(Row(cells=[...])): a list operation, no lookup and no
\* index is touched
AppendRow ==
    /\ Len(rows) < MaxRows
    /\ \A i \in DOMAIN rows : rows[i].oid < NextOid
    /\ \E cells \in IndexedCells :
          rows' = Append(rows, Row(NextOid, NoId, NoId, cells))
    /\ result' = [op |-> "rows.append"]
    /\ UNCHANGED <<columns, column_title_to_column, column_id_to_column,
                   row_num_to_row, row_id_to_row, indexes>>

\* del sheet.rows[0]
DeleteFirstRow ==
    /\ rows # <<>>
    /\ rows' = Tail(rows)
    /\ result' = [op |-> "del rows[0]"]
    /\ UNCHANGED <<columns, column_title_to_column, column_id_to_column,
                   row_num_to_row, row_id_to_row, indexes>>

\* row.cells[c].value = value, for the first row of the sheet
SetCellValue ==
    /\ rows # <<>>
    /\ \E c \in DOMAIN rows[1].cells : \E value \in ValuesOf(TitleSeq[c]) :
          /\ value # rows[1].cells[c].value
          /\ rows' = [rows EXCEPT ![1].cells[c].value = value]
    /\ result' = [op |-> "cell.value"]
    /\ UNCHANGED <<columns, column_title_to_column, column_id_to_column,
                   row_num_to_row, row_id_to_row, indexes>>

GetRowByColumn == \E filter \in ColumnFilters : GetRowCall(NoId, NoId, filter)

GetRowsByColumn == \E filter \in ColumnFilters : GetRowsCall(filter)

NextFrame ==
    \/ BuildFirstColumnIndex
    \/ GetRowByColumn
    \/ GetRowsByColumn
    \/ AppendRow
    \/ DeleteFirstRow
    \/ SetCellValue

SpecFrame == Init /\ [][NextFrame]_vars

-----------------------------------------------------------------------------
(* SpecLookup: a sheet built by hand, Sheet(columns=...) and then            *)
(* sheet.rows.append(Row(...)), whose row and cell lookups are rebuilt and   *)
(* read                                                                      *)

InitLookup ==
    \E cols \in LookupColumns, cells \in LookupCells :
        /\ columns = cols
        /\ column_title_to_column = UpdateColumnLookup(cols)[1]
        /\ column_id_to_column = UpdateColumnLookup(cols)[2]
        /\ rows = <<Row(1, 11, 1, cells)>>
        /\ row_num_to_row = EmptyDict
        /\ row_id_to_row = EmptyDict
        /\ indexes = <<>>
        /\ result = [op |-> "append", kind |-> "ok"]

GetCellOfRow ==
    \E i \in DOMAIN rows, column_title \in Titles \cup {NoTitle},
       column_id \in ColumnIds \cup {UnknownId, NoId} :
        GetCellCall(i, column_title, column_id)

NextLookup == UpdateRowCellLookupCall \/ GetCellOfRow

SpecLookup == InitLookup /\ [][NextLookup]_vars

-----------------------------------------------------------------------------
(* SpecRowLookup: sheets constructed from rows of any id and row number,   *)
(* None, 0 and repeated ones included, read by row number and by row id    *)
(* before and after build_index                                            *)

RowIds == {11, 12}
RowNums == {1, 2}

\* the rows of such a sheet: row i is the object i, with one cell in the
\* first column
NumberedRows ==
    {[i \in DOMAIN q |-> Row(i, q[i][1], q[i][2], <<Cell(1, "x")>>)] :
        q \in SeqsUpTo((RowIds \cup {0, NoId}) \X (RowNums \cup {0, NoId}), MaxRows)}

InitRowLookup == \E rws \in NumberedRows : Constructed(IndexedColumns, rws)

GetRowByNum == \E row_num \in RowNums \cup {0} : GetRowCall(row_num, NoId, NoFilter)

GetRowById == \E row_id \in RowIds \cup {0} : GetRowCall(NoId, row_id, NoFilter)

NextRowLookup == BuildFirstColumnIndex \/ GetRowByNum \/ GetRowById

SpecRowLookup == InitRowLookup /\ [][NextRowLookup]_vars

-----------------------------------------------------------------------------
(* SheetCRUD.sort_rows and SpecSort: a loaded sheet, indexed or not, whose *)
(* rows the server sorts                                                   *)

\* Sheet.load(data): the Sheet structured from a payload's columns and rows;
\* row j of the payload becomes a Row object of identity oids[j], and
\* __attrs_post_init__ rebuilds the lookups; indexes is not an init argument
\* and starts empty
LoadSheet(cols, payload, oids) ==
    LET rws == [j \in DOMAIN payload |->
                   Row(oids[j], payload[j].id, payload[j].num, payload[j].cells)]
        c == UpdateColumnLookup(cols)
        u == UpdateRowCellLookup(rws, cols, c[2])
    IN  [ok |-> u.ok,
         sheet |-> [columns |-> cols,
                    column_title_to_column |-> c[1],
                    column_id_to_column |-> c[2],
                    rows |-> u.rows,
                    row_num_to_row |-> u.byNum,
                    row_id_to_row |-> u.byId,
                    indexes |-> <<>>]]

RECURSIVE SortRowsDataFrom(_, _, _, _, _)
\* _sort_rows_data: the loop over the items of order from position i on; an
\* item names its column by id, else by title (get_column raises KeyError on
\* a title the sheet does not know), else the item is rejected
SortRowsDataFrom(cols, colByTitle, order, i, data) ==
    IF i > Len(order) THEN [kind |-> "ok", data |-> data]
    ELSE LET direction == IF order[i].descending THEN "DESCENDING" ELSE "ASCENDING"
         IN  IF order[i].column_id # NoId
             THEN SortRowsDataFrom(cols, colByTitle, order, i + 1,
                      Append(data, [columnId |-> order[i].column_id, direction |-> direction]))
             ELSE IF order[i].column_title # NoTitle
                  THEN IF order[i].column_title \in DOMAIN colByTitle
                       THEN SortRowsDataFrom(cols, colByTitle, order, i + 1,
                                Append(data, [columnId |-> cols[colByTitle[order[i].column_title]].id,
                                              direction |-> direction]))
                       ELSE [kind |-> "KeyError", data |-> data]
                  ELSE [kind |-> "ValueError", data |-> data]

SortRowsData(cols, colByTitle, order) == SortRowsDataFrom(cols, colByTitle, order, 1, <<>>)

\* the server's answer to a sort request: the sheet's rows in the order p,
\* renumbered from 1
SortResponse(rws, p) ==
    [j \in DOMAIN rws |-> [id |-> rws[p[j]].id, num |-> j, cells |-> rws[p[j]].cells]]

\* A variant of sort_rows that puts the Row objects of the sheet passed in
\* into the returned Sheet in place of loading new ones from the response.
sort_rows_reusing_rows(cols, colByTitle, rws, order, p) ==
    LET d == SortRowsData(cols, colByTitle, order)
        l == LoadSheet(cols, SortResponse(rws, p), [j \in DOMAIN rws |-> rws[p[j]].oid])
    IN  IF d.kind # "ok" THEN [kind |-> d.kind]
        ELSE IF ~l.ok THEN [kind |-> "KeyError"]
        ELSE [kind |-> "ok", data |-> d.data, response |-> SortResponse(rws, p),
              sheet |-> l.sheet]

\* sort_rows(sheet, order), the server answering with the rows in the order
\* p: the request data is built from the sheet, and the Sheet returned is
\* loaded from the response, its Row objects being new ones
sort_rows(cols, colByTitle, rws, order, p) ==
    LET d == SortRowsData(cols, colByTitle, order)
        l == LoadSheet(cols, SortResponse(rws, p), [j \in DOMAIN rws |-> Len(rws) + j])
    IN  IF d.kind # "ok" THEN [kind |-> d.kind]
        ELSE IF ~l.ok THEN [kind |-> "KeyError"]
        ELSE [kind |-> "ok", data |-> d.data, response |-> SortResponse(rws, p),
              sheet |-> l.sheet]

\* smartsheet.sheets.sort_rows(sheet, order)
SortRowsCall(order, p) ==
    LET r == sort_rows(columns, column_title_to_column, rows, order, p)
    IN  /\ result' = [op |-> "sort_rows", order |-> order, out |-> r]
        /\ UNCHANGED <<sheetVars, indexes>>

\* the orders of the rows a response may carry
RowOrders(n) == {p \in [1..n -> 1..n] : \A i, j \in 1..n : p[i] = p[j] => i = j}

\* sort orders: no item, or one item naming its column by id, by a known or
\* an unknown title, or not at all
SortOrders ==
    {<<>>,
     <<[column_id |-> 1, column_title |-> NoTitle, descending |-> FALSE]>>,
     <<[column_id |-> NoId, column_title |-> TitleSeq[2], descending |-> TRUE]>>,
     <<[column_id |-> NoId, column_title |-> "c", descending |-> FALSE]>>,
     <<[column_id |-> NoId, column_title |-> NoTitle, descending |-> FALSE]>>}

SortRows == \E order \in SortOrders, p \in RowOrders(Len(rows)) : SortRowsCall(order, p)

NextSort == BuildFirstColumnIndex \/ SortRows

SpecSort == Init /\ [][NextSort]_vars

-----------------------------------------------------------------------------
(* Sheet.load of a server payload and SpecLoad: the cell values of checkbox *)
(* and date columns                                                         *)

MaxLoadCells == 2   \* cells of the row of a payload that is loaded

\* A JSON or Python value is a record of its kind and its text; a cell with
\* no "value" key in the payload carries Absent, a Cell whose value is None
\* carries NoneValue.
Value(kind, text) == [kind |-> kind, text |-> text]
Absent == Value("absent", "")
NoneValue == Value("None", "None")
TrueValue == Value("bool", "true")
FalseValue == Value("bool", "false")

\* "if not value": False and the empty string are falsy
Falsy(value) == value = FalseValue \/ value = Value("str", "")

\* the strings the ISO parsers accept: marshmallow.utils.from_iso_date and
\* from_iso_datetime raise ValueError on every other string
IsoDates == {"1990-01-01"}
IsoDatetimes == {"1990-01-01T10:00:00"}

\* A variant of _deserialize without the try / except ValueError around the
\* ISO parsers: it is "ValueError" itself where the code keeps the string.
CellValueDeserializeStrictly(value, column_id, column_id_to_type) ==
    IF Falsy(value) THEN value
    ELSE IF column_id \notin DOMAIN column_id_to_type THEN Value("raise", "KeyError")
    ELSE LET column_type == column_id_to_type[column_id]
         IN  IF column_type = "DATE"
             THEN IF value.kind = "str" /\ value.text \in IsoDates
                  THEN Value("date", value.text)
                  ELSE Value("raise", "ValueError")
             ELSE IF column_type \in {"DATETIME", "ABSTRACT_DATETIME"}
                  THEN IF value.kind = "str" /\ value.text \in IsoDatetimes
                       THEN Value("datetime", value.text)
                       ELSE Value("raise", "ValueError")
                  ELSE value

\* CellValueField._deserialize for a value the payload carries: a falsy
\* value is returned as it is; otherwise the column's type is looked up
\* (KeyError for a column id the payload's columns do not hold) and a DATE
\* string becomes a date, a DATETIME or ABSTRACT_DATETIME string a datetime,
\* each kept as the string when the parser raises ValueError
CellValueDeserialize(value, column_id, column_id_to_type) ==
    IF Falsy(value) THEN value
    ELSE IF column_id \notin DOMAIN column_id_to_type THEN Value("raise", "KeyError")
    ELSE LET column_type == column_id_to_type[column_id]
         IN  IF column_type = "DATE"
             THEN IF value.kind = "str" /\ value.text \in IsoDates
                  THEN Value("date", value.text)
                  ELSE value
             ELSE IF column_type \in {"DATETIME", "ABSTRACT_DATETIME"}
                  THEN IF value.kind = "str" /\ value.text \in IsoDatetimes
                       THEN Value("datetime", value.text)
                       ELSE value
                  ELSE value

\* A variant of fix_checkbox_value that sets False on every CHECKBOX cell,
\* whether or not the payload carries a value for it.
FixCheckboxValueAlways(value, column_id, column_id_to_type) ==
    IF column_id \notin DOMAIN column_id_to_type THEN Value("raise", "KeyError")
    ELSE IF column_id_to_type[column_id] = "CHECKBOX"
         THEN FalseValue
         ELSE value

\* CellSchema.fix_checkbox_value on the deserialized cell: the column's type
\* is looked up (KeyError for an unknown column id), and a CHECKBOX cell with
\* no value gets False
FixCheckboxValue(value, column_id, column_id_to_type) ==
    IF column_id \notin DOMAIN column_id_to_type THEN Value("raise", "KeyError")
    ELSE IF column_id_to_type[column_id] = "CHECKBOX" /\ value = Absent
         THEN FalseValue
         ELSE value

\* the Cell loaded from one cell of the payload: the value field is
\* deserialized if present, then fix_checkbox_value runs, and a Cell built
\* without a value has the value None
LoadCell(data, column_id_to_type) ==
    LET v == IF data.value = Absent THEN Absent
             ELSE CellValueDeserialize(data.value, data.columnId, column_id_to_type)
        w == IF v.kind = "raise" THEN v
             ELSE FixCheckboxValue(v, data.columnId, column_id_to_type)
    IN  Cell(data.columnId, IF w = Absent THEN NoneValue ELSE w)

RECURSIVE ColumnTypesFrom(_, _, _)
\* ColumnSchema.post_load_update_parent_context over the payload's columns
ColumnTypesFrom(cols, i, types) ==
    IF i > Len(cols) THEN types
    ELSE ColumnTypesFrom(cols, i + 1, DictSet(types, cols[i].id, cols[i].type))

\* the cells of a payload's row, loaded
LoadCells(cells, column_id_to_type) ==
    [c \in DOMAIN cells |-> LoadCell(cells[c], column_id_to_type)]

\* the exception the first cell that raised has raised, "ok" if none has
Raised(cells) ==
    IF \E c \in DOMAIN cells : cells[c].value.kind = "raise"
    THEN cells[CHOOSE c \in DOMAIN cells :
                   /\ cells[c].value.kind = "raise"
                   /\ \A b \in DOMAIN cells : cells[b].value.kind = "raise" => c <= b].value.text
    ELSE "ok"

RECURSIVE LoadRowsFrom(_, _, _, _)
\* the rows of the payload from position r on, loaded; an exception of a
\* cell ends the load
LoadRowsFrom(rws, r, column_id_to_type, loaded) ==
    IF r > Len(rws) THEN [kind |-> "ok", rows |-> loaded]
    ELSE LET cells == LoadCells(rws[r].cells, column_id_to_type)
         IN  IF Raised(cells) # "ok" THEN [kind |-> Raised(cells), rows |-> loaded]
             ELSE LoadRowsFrom(rws, r + 1, column_id_to_type,
                               Append(loaded, [id |-> rws[r].id, num |-> rws[r].rowNumber,
                                               cells |-> cells]))

\* Sheet.load(data): the columns are loaded first and fill the context's
\* column_id_to_type, then the rows and their cells are loaded, and the
\* Sheet is structured from them
LoadSheetData(data) ==
    LET types == ColumnTypesFrom(data.columns, 1, EmptyDict)
        l == LoadRowsFrom(data.rows, 1, types, <<>>)
        made == LoadSheet(data.columns, l.rows, [j \in DOMAIN l.rows |-> j])
    IN  IF l.kind # "ok" THEN [kind |-> l.kind]
        ELSE IF ~made.ok THEN [kind |-> "KeyError"]
        ELSE [kind |-> "ok", sheet |-> made.sheet]

\* smartsheet.sheets.get(id=...), the server having answered with data
LoadCall(data) ==
    LET l == LoadSheetData(data)
    IN  /\ result' = [op |-> "load", data |-> data, kind |-> l.kind]
        /\ IF l.kind = "ok"
           THEN /\ columns' = l.sheet.columns
                /\ column_title_to_column' = l.sheet.column_title_to_column
                /\ column_id_to_column' = l.sheet.column_id_to_column
                /\ rows' = l.sheet.rows
                /\ row_num_to_row' = l.sheet.row_num_to_row
                /\ row_id_to_row' = l.sheet.row_id_to_row
                /\ indexes' = l.sheet.indexes
           ELSE UNCHANGED <<sheetVars, indexes>>

\* the columns of the payloads: one of each type the loader tells apart and
\* a text column, column i having the id i and its type's name as title
TypeSeq == <<"CHECKBOX", "DATE", "DATETIME", "ABSTRACT_DATETIME", "TEXT_NUMBER">>
PayloadColumns == [i \in DOMAIN TypeSeq |-> [id |-> i, title |-> TypeSeq[i], type |-> TypeSeq[i]]]

\* the id of a column no payload has
NoColumn == Len(TypeSeq) + 1

\* the values the cells of a column of the type carry in the payloads
PayloadValues(type) ==
    CASE type = "CHECKBOX" -> {Absent, TrueValue, FalseValue}
      [] type = "DATE" -> {Absent, Value("str", "1990-01-01"), Value("str", "1990-02-30"),
                           Value("str", "soon"), Value("str", "")}
      [] type \in {"DATETIME", "ABSTRACT_DATETIME"} ->
             {Value("str", "1990-01-01T10:00:00"), Value("str", "soon")}
      [] OTHER -> {Absent, Value("str", "1990-01-01")}

PayloadCells ==
    UNION {{[columnId |-> i, value |-> v] : v \in PayloadValues(TypeSeq[i])} : i \in DOMAIN TypeSeq}
        \cup {[columnId |-> NoColumn, value |-> Value("str", "soon")]}

\* the payloads: the columns and one row of cells
Payloads ==
    {[columns |-> PayloadColumns,
      rows |-> <<[id |-> 11, rowNumber |-> 1, cells |-> cells]>>] :
        cells \in SeqsUpTo(PayloadCells, MaxLoadCells)}

\* the server has answered a get request and nothing is loaded yet
InitLoad ==
    \E data \in Payloads :
        /\ columns = <<>>
        /\ column_title_to_column = EmptyDict
        /\ column_id_to_column = EmptyDict
        /\ rows = <<>>
        /\ row_num_to_row = EmptyDict
        /\ row_id_to_row = EmptyDict
        /\ indexes = <<>>
        /\ result = [op |-> "response", data |-> data]

Load == result.op = "response" /\ LoadCall(result.data)

SpecLoad == InitLoad /\ [][Load]_vars

-----------------------------------------------------------------------------
(* ReportCRUD._get_by_id and SpecReport: one report fetched page by page.  *)
(* The calls in flight are kept in result: each call has its own page,     *)
(* data and full_data, the locals of _get_by_id.                           *)

MaxPages == 3       \* pages one fetch requests
MaxTotal == 2       \* the totalRowCount a response declares
MaxPageRows == 1    \* rows in one response

\* the sheet variables of a client that fetches reports and holds no sheet
NoSheet ==
    /\ columns = <<>>
    /\ column_title_to_column = EmptyDict
    /\ column_id_to_column = EmptyDict
    /\ rows = <<>>
    /\ row_num_to_row = EmptyDict
    /\ row_id_to_row = EmptyDict
    /\ indexes = <<>>

\* a response of the server to the request of a page of a report: a status
\* and, if it is 200, the declared total and the rows of the page, row k of
\* page p of report id being <<id, p, k>>
PageData(id, page, total, n) ==
    [status |-> 200, totalRowCount |-> total, rows |-> [k \in 1..n |-> <<id, page, k>>]]
ErrorData == [status |-> 500, totalRowCount |-> 0, rows |-> <<>>]
Responses(id, page) ==
    {PageData(id, page, total, n) : total \in 0..MaxTotal, n \in 0..MaxPageRows}
        \cup {ErrorData}

\* a call of reports.get(id=id) before its first statement
NewCall(id) ==
    [id |-> id, pc |-> "start", page |-> 0, requested |-> <<>>,
     data |-> ErrorData, full_data |-> ErrorData, report |-> <<>>]

\* page = 1 and the first self.smartsheet._get(...): the request is sent
FirstRequest(call) ==
    [call EXCEPT !.pc = "request", !.page = 1, !.requested = <<1>>]

\* a _get returns or raises: a status of 400 or above raises out of
\* _get_by_id; the first page becomes data and full_data, a later page
\* becomes data and its rows extend full_data["rows"]
Receive(call, response) ==
    IF response.status >= 400
    THEN [call EXCEPT !.pc = "raised"]
    ELSE IF call.page = 1
         THEN [call EXCEPT !.pc = "loop", !.data = response, !.full_data = response]
         ELSE [call EXCEPT !.pc = "loop", !.data = response,
                           !.full_data.rows = call.full_data.rows \o response.rows]

\* the loop test, while data["totalRowCount"] != len(full_data["rows"]): the
\* next page is requested, or the loop ends and the Report is created from
\* full_data
Test(call) ==
    IF call.data.totalRowCount # Len(call.full_data.rows)
    THEN [call EXCEPT !.pc = "request", !.page = call.page + 1,
                      !.requested = Append(call.requested, call.page + 1)]
    ELSE [call EXCEPT !.pc = "done", !.report = call.full_data.rows]

\* the steps of the call c of result.calls
BeginCall(c) ==
    /\ result.calls[c].pc = "start"
    /\ result' = [result EXCEPT !.calls[c] = FirstRequest(result.calls[c])]
    /\ UNCHANGED <<sheetVars, indexes>>

\* A variant of the receipt of a page in which the calls accumulate their
\* rows in one list they share.
ReceiveCallSharingRows(c) ==
    /\ result.calls[c].pc = "request"
    /\ \E response \in Responses(result.calls[c].id, result.calls[c].page) :
          result' = [result EXCEPT !.calls =
                        [d \in DOMAIN result.calls |->
                            IF d = c
                            THEN Receive(result.calls[c], response)
                            ELSE [result.calls[d] EXCEPT
                                     !.full_data.rows = @ \o response.rows]]]
    /\ UNCHANGED <<sheetVars, indexes>>

ReceiveCall(c) ==
    /\ result.calls[c].pc = "request"
    /\ \E response \in Responses(result.calls[c].id, result.calls[c].page) :
          result' = [result EXCEPT !.calls[c] = Receive(result.calls[c], response)]
    /\ UNCHANGED <<sheetVars, indexes>>

TestCall(c) ==
    /\ result.calls[c].pc = "loop"
    /\ Test(result.calls[c]).page <= MaxPages
    /\ result' = [result EXCEPT !.calls[c] = Test(result.calls[c])]
    /\ UNCHANGED <<sheetVars, indexes>>

InitReport == NoSheet /\ result = [op |-> "reports.get", calls |-> <<NewCall(1)>>]

BeginReport == BeginCall(1)
ReceivePage == ReceiveCall(1)
TestRowCount == TestCall(1)

NextReport == BeginReport \/ ReceivePage \/ TestRowCount

SpecReport == InitReport /\ [][NextReport]_vars

\* SpecFiniteReport: the fetch of a report of at most MaxPages pages, run to
\* its end. Every page after page MaxPages is empty, whatever total it
\* declares, and the page counter stands for all of those pages once it has
\* passed MaxPages. The call runs on while it has a statement to execute,
\* and the server answers every request.
BeyondData(total) == [status |-> 200, totalRowCount |-> total, rows |-> <<>>]

ResponsesOfFiniteReport(id, page) ==
    IF page <= MaxPages
    THEN Responses(id, page)
    ELSE {BeyondData(total) : total \in 0..MaxTotal} \cup {ErrorData}

ReceivePageOfFiniteReport ==
    /\ result.calls[1].pc = "request"
    /\ \E response \in ResponsesOfFiniteReport(result.calls[1].id, result.calls[1].page) :
          result' = [result EXCEPT !.calls[1] = Receive(result.calls[1], response)]
    /\ UNCHANGED <<sheetVars, indexes>>

TestRowCountOfFiniteReport ==
    /\ result.calls[1].pc = "loop"
    /\ result' = [result EXCEPT !.calls[1] =
                      IF Test(result.calls[1]).page > MaxPages + 1
                      THEN [result.calls[1] EXCEPT !.pc = Test(result.calls[1]).pc]
                      ELSE Test(result.calls[1])]
    /\ UNCHANGED <<sheetVars, indexes>>

NextFiniteReport == BeginReport \/ ReceivePageOfFiniteReport \/ TestRowCountOfFiniteReport

SpecFiniteReport ==
    InitReport /\ [][NextFiniteReport]_vars /\ WF_vars(NextFiniteReport)

\* SpecAsync: two calls of ReportAsyncCRUD._get_by_id, for two reports, as
\* tasks of one event loop on one AsyncSmartsheet. A task runs from one
\* await of self.smartsheet._get to the next, and the tasks that are
\* waiting for a response resume in any order.
InitAsync ==
    /\ NoSheet
    /\ result = [op |-> "reports.get", calls |-> <<NewCall(1), NewCall(2)>>]

BeginTask == \E c \in DOMAIN result.calls : BeginCall(c)
ResumeTask == \E c \in DOMAIN result.calls : ReceiveCall(c)
TestTask == \E c \in DOMAIN result.calls : TestCall(c)

NextAsync == BeginTask \/ ResumeTask \/ TestTask

SpecAsync == InitAsync /\ [][NextAsync]_vars

-----------------------------------------------------------------------------
(* Smartsheet._request and SmartsheetHTTPError._from_response_data, and    *)
(* SpecRequest: one response of the server, handled by one request.        *)

OkStatuses == {200, 204}
ErrorStatuses == {400, 404, 429, 499, 500, 503, 599}
ErrorCodes == {1006, 1056, 4003}

\* bodies of responses: none, a text that is not JSON, the error JSON of the
\* API ({"errorCode": ..., "message": ..., "refId": ...}) and the JSON of a
\* result
Body(kind, errorCode, message) == [kind |-> kind, errorCode |-> errorCode, message |-> message]
NoBody == Body("empty", NoId, "")
TextBody == Body("text", NoId, "Bad Gateway")
ErrorBodies == {Body("error", code, message) : code \in ErrorCodes, message \in {"", "Not Found"}}
DataBody == Body("data", NoId, "")
BodiesOf(status) ==
    IF status \in OkStatuses THEN {NoBody, DataBody} ELSE {NoBody, TextBody} \cup ErrorBodies

\* error = None
NoError == [error_code |-> NoId, message |-> ""]

\* SmartsheetHTTPError.__init__: the message of the error replaces the
\* message given when it is not empty
SmartsheetHTTPError(class, status_code, error, message) ==
    [class |-> class, status_code |-> status_code, error |-> error,
     message |-> IF error # NoError /\ error.message # "" THEN error.message ELSE message]

\* A variant of _from_response_data that never reads the body.
FromResponseDataIgnoringBody(status_code, body) ==
    LET class == IF 400 <= status_code /\ status_code < 500
                 THEN IF status_code = 404 THEN "SmartsheetHTTPObjectNotFound"
                                           ELSE "SmartsheetHTTPClientError"
                 ELSE IF 500 <= status_code /\ status_code < 600
                      THEN "SmartsheetHTTPServerError"
                      ELSE "SmartsheetHTTPError"
    IN  SmartsheetHTTPError(class, status_code, NoError, "")

\* _from_response_data: a body that is not empty is parsed, an error JSON
\* becomes the Error and a text that is not JSON becomes the message; the
\* class follows the status
FromResponseData(status_code, body) ==
    LET error == IF body.kind = "error"
                 THEN [error_code |-> body.errorCode, message |-> body.message]
                 ELSE NoError
        message == IF body.kind = "text" THEN body.message ELSE ""
        class == IF 400 <= status_code /\ status_code < 500
                 THEN IF status_code = 404 THEN "SmartsheetHTTPObjectNotFound"
                                           ELSE "SmartsheetHTTPClientError"
                 ELSE IF 500 <= status_code /\ status_code < 600
                      THEN "SmartsheetHTTPServerError"
                      ELSE "SmartsheetHTTPError"
    IN  SmartsheetHTTPError(class, status_code, error, message)

\* class SmartsheetHTTPObjectNotFound(SmartsheetHTTPClientError)
IsClientError(class) == class \in {"SmartsheetHTTPClientError", "SmartsheetHTTPObjectNotFound"}
IsServerError(class) == class = "SmartsheetHTTPServerError"

\* response.ok of requests
Ok(status) == ~(400 <= status /\ status < 600)

\* _request: the one request is sent and its response is raised or returned
RequestCall(status, body) ==
    /\ result' = [op |-> "_request", status |-> status, body |-> body, sent |-> 1,
                  raised |-> ~Ok(status),
                  error |-> IF Ok(status)
                            THEN SmartsheetHTTPError("", NoId, NoError, "")
                            ELSE FromResponseData(status, body)]
    /\ UNCHANGED <<sheetVars, indexes>>

InitRequest ==
    /\ NoSheet
    /\ \E status \in OkStatuses \cup ErrorStatuses : \E body \in BodiesOf(status) :
          result = [op |-> "response", status |-> status, body |-> body]

Request == result.op = "response" /\ RequestCall(result.status, result.body)

SpecRequest == InitRequest /\ [][Request]_vars

-----------------------------------------------------------------------------
(* CRUDRead.get and CRUD.delete, and SpecCRUD: the objects of one kind the *)
(* server holds, fetched and deleted by name or by id.                     *)

MaxObjects == 2     \* objects on the server

ObjectNames == {"a", "b"}
ObjectIds == {1, 2}

\* the objects the server lists: a name and an id each (an entry of a list
\* may come without an id)
IndexObject(name, id) == [name |-> name, id |-> id]
ServerObjects ==
    SeqsUpTo({IndexObject(name, id) : name \in ObjectNames, id \in ObjectIds \cup {NoId}},
             MaxObjects)

\* the requests a call sends
ListRequest == [method |-> "GET", id |-> NoId]
GetRequest(id) == [method |-> "GET", id |-> id]
DeleteRequest(id) == [method |-> "DELETE", id |-> id]

\* what a call comes to: how it ends, the requests it sent in order, the id
\* of the object fetched or deleted and the objects left on the server
Outcome(kind, requests, id, server) ==
    [kind |-> kind, requests |-> requests, id |-> id, server |-> server]

\* "if id", "elif name": None, 0 and "" are falsy
TruthyId(id) == id \notin {NoId, 0}
TruthyName(name) == name \notin {NoTitle, ""}

\* _get_id: the id of the first object of that name
RECURSIVE GetIdFrom(_, _, _)
GetIdFrom(name, objects, i) ==
    IF i > Len(objects) THEN [kind |-> "SmartsheetObjectNotFound", id |-> NoId]
    ELSE IF objects[i].name = name
         THEN IF objects[i].id = NoId THEN [kind |-> "ValueError", id |-> NoId]
                                      ELSE [kind |-> "ok", id |-> objects[i].id]
         ELSE GetIdFrom(name, objects, i + 1)

_get_id(name, objects) == GetIdFrom(name, objects, 1)

\* the server answers GET and DELETE of /{id}: 404 when it has no such object
HasObject(server, id) == \E i \in DOMAIN server : server[i].id = id
WithoutObject(server, id) == SelectSeq(server, LAMBDA o : o.id # id)

\* _get_by_id after the requests already sent
_get_by_id(server, sent, id) ==
    IF HasObject(server, id)
    THEN Outcome("ok", Append(sent, GetRequest(id)), id, server)
    ELSE Outcome("SmartsheetHTTPObjectNotFound", Append(sent, GetRequest(id)), NoId, server)

\* _delete_by_id after the requests already sent
_delete_by_id(server, sent, id) ==
    IF HasObject(server, id)
    THEN Outcome("ok", Append(sent, DeleteRequest(id)), id, WithoutObject(server, id))
    ELSE Outcome("SmartsheetHTTPObjectNotFound", Append(sent, DeleteRequest(id)), NoId, server)

\* A variant of get that looks at the name before the id.
get_by_name_first(server, name, id) ==
    IF TruthyName(name)
    THEN LET id_ == _get_id(name, server)
         IN  IF id_.kind = "ok" THEN _get_by_id(server, <<ListRequest>>, id_.id)
                                ELSE Outcome(id_.kind, <<ListRequest>>, NoId, server)
    ELSE IF TruthyId(id)
         THEN _get_by_id(server, <<>>, id)
         ELSE Outcome("ValueError", <<>>, NoId, server)

\* get(name=..., id=...): if id, elif name (get_id lists the objects and
\* resolves the name), else ValueError
get(server, name, id) ==
    IF TruthyId(id)
    THEN _get_by_id(server, <<>>, id)
    ELSE IF TruthyName(name)
         THEN LET id_ == _get_id(name, server)
              IN  IF id_.kind = "ok" THEN _get_by_id(server, <<ListRequest>>, id_.id)
                                     ELSE Outcome(id_.kind, <<ListRequest>>, NoId, server)
         ELSE Outcome("ValueError", <<>>, NoId, server)

\* delete(name=..., id=...): the same three branches
delete(server, name, id) ==
    IF TruthyId(id)
    THEN _delete_by_id(server, <<>>, id)
    ELSE IF TruthyName(name)
         THEN LET id_ == _get_id(name, server)
              IN  IF id_.kind = "ok" THEN _delete_by_id(server, <<ListRequest>>, id_.id)
                                     ELSE Outcome(id_.kind, <<ListRequest>>, NoId, server)
         ELSE Outcome("ValueError", <<>>, NoId, server)

\* the arguments of the calls: None, a falsy value, a name or an id an
\* object may have
NameArguments == {NoTitle, ""} \cup ObjectNames
IdArguments == {NoId, 0} \cup ObjectIds

CrudCall(op, name, id, r) ==
    /\ result' = [op |-> op, name |-> name, id |-> id, before |-> result.server,
                  kind |-> r.kind, requests |-> r.requests, found |-> r.id,
                  server |-> r.server]
    /\ UNCHANGED <<sheetVars, indexes>>

InitCRUD ==
    /\ NoSheet
    /\ \E server \in ServerObjects :
          result = [op |-> "init", name |-> NoTitle, id |-> NoId, before |-> server,
                    kind |-> "ok", requests |-> <<>>, found |-> NoId, server |-> server]

Get ==
    \E name \in NameArguments, id \in IdArguments :
        CrudCall("get", name, id, get(result.server, name, id))

Delete ==
    \E name \in NameArguments, id \in IdArguments :
        CrudCall("delete", name, id, delete(result.server, name, id))

NextCRUD == Get \/ Delete

SpecCRUD == InitCRUD /\ [][NextCRUD]_vars

-----------------------------------------------------------------------------
(* utils.grouper, and SpecGrouper: one sequence cut into chunks.           *)

MaxSeqLen == 4      \* elements of the sequence
MaxChunk == 3       \* the n of grouper(seq, n)

GrouperElements == {"a", "b"}

\* cast(islice(it, n)): the next n elements, or those that are left
Islice(seq, n) == SubSeq(seq, 1, IF n < Len(seq) THEN n ELSE Len(seq))
AfterIslice(seq, n) == SubSeq(seq, (IF n < Len(seq) THEN n ELSE Len(seq)) + 1, Len(seq))

\* A variant of grouper that yields full chunks only.
RECURSIVE grouper_of_full_chunks(_, _)
grouper_of_full_chunks(seq, n) ==
    IF Len(seq) < n THEN <<>>
    ELSE <<Islice(seq, n)>> \o grouper_of_full_chunks(AfterIslice(seq, n), n)

\* grouper: chunks are taken until one is empty
RECURSIVE grouper(_, _)
grouper(seq, n) ==
    LET chunk == Islice(seq, n)
    IN  IF chunk = <<>> THEN <<>>
        ELSE <<chunk>> \o grouper(AfterIslice(seq, n), n)

GrouperCall(seq, n) ==
    /\ result' = [op |-> "grouper", seq |-> seq, n |-> n, chunks |-> grouper(seq, n)]
    /\ UNCHANGED <<sheetVars, indexes>>

InitGrouper ==
    /\ NoSheet
    /\ \E seq \in SeqsUpTo(GrouperElements, MaxSeqLen), n \in 1..MaxChunk :
          result = [op |-> "input", seq |-> seq, n |-> n, chunks |-> <<>>]

Grouper == result.op = "input" /\ GrouperCall(result.seq, result.n)

SpecGrouper == InitGrouper /\ [][Grouper]_vars

-----------------------------------------------------------------------------
(* SheetCRUD.delete_rows of crud/sheets.py, and SpecDeleteRows: the ids of  *)
(* rows deleted chunk by chunk.                                             *)

MaxDeleteIds == 4            \* row ids in one delete_rows call

MAX_ROWS_TO_DELETE == 2      \* constants.MAX_ROWS_TO_DELETE

DeleteIds == {11, 12, 13}

\* result.message of the Result of a DELETE request
DeleteMessages == {"SUCCESS", "PARTIAL_SUCCESS"}

\* a call of delete_rows(sheet_id, row_ids) at the head of its loop: the
\* chunks still to send, the requests sent (the ids of each), the messages
\* of their results and the ids the server has deleted
NewDeleteRows(row_ids) ==
    [row_ids |-> row_ids, pc |-> "loop",
     chunks |-> grouper(row_ids, MAX_ROWS_TO_DELETE),
     requests |-> <<>>, messages |-> <<>>, deleted |-> {}, out |-> ""]

\* A variant of the body of the loop that does not look at the message of
\* the result.
DeleteChunkWhateverTheMessage(call, message) ==
    LET ids == Head(call.chunks)
    IN  [call EXCEPT !.chunks = Tail(call.chunks),
                     !.requests = Append(call.requests, ids),
                     !.messages = Append(call.messages, message),
                     !.deleted = IF message = "SUCCESS"
                                 THEN call.deleted \cup {ids[j] : j \in DOMAIN ids}
                                 ELSE call.deleted]

\* the body of the loop for the next chunk: the DELETE request with its
\* ids, and ValueError when the message of the result is not SUCCESS
DeleteChunk(call, message) ==
    LET ids == Head(call.chunks)
    IN  [call EXCEPT !.chunks = Tail(call.chunks),
                     !.requests = Append(call.requests, ids),
                     !.messages = Append(call.messages, message),
                     !.deleted = IF message = "SUCCESS"
                                 THEN call.deleted \cup {ids[j] : j \in DOMAIN ids}
                                 ELSE call.deleted,
                     !.pc = IF message = "SUCCESS" THEN "loop" ELSE "ValueError"]

\* return result, after the loop: the result of the last request; result is
\* not bound when the loop had no chunk
ReturnResult(call) ==
    IF call.messages = <<>>
    THEN [call EXCEPT !.pc = "UnboundLocalError"]
    ELSE [call EXCEPT !.pc = "returned", !.out = call.messages[Len(call.messages)]]

InitDeleteRows ==
    /\ NoSheet
    /\ \E row_ids \in SeqsUpTo(DeleteIds, MaxDeleteIds) :
          result = [op |-> "delete_rows", call |-> NewDeleteRows(row_ids)]

SendChunk ==
    /\ result.call.pc = "loop"
    /\ result.call.chunks # <<>>
    /\ \E message \in DeleteMessages :
          result' = [result EXCEPT !.call = DeleteChunk(result.call, message)]
    /\ UNCHANGED <<sheetVars, indexes>>

EndOfChunks ==
    /\ result.call.pc = "loop"
    /\ result.call.chunks = <<>>
    /\ result' = [result EXCEPT !.call = ReturnResult(result.call)]
    /\ UNCHANGED <<sheetVars, indexes>>

NextDeleteRows == SendChunk \/ EndOfChunks

SpecDeleteRows == InitDeleteRows /\ [][NextDeleteRows]_vars

-----------------------------------------------------------------------------
(* SheetCRUDMixin._add_or_update_row_data and the four calls that use it,   *)
(* and SpecRowData: the caller's rows and the payload made of them.         *)

MaxRowCells == 2    \* cells of a row that is added or updated

\* Cell(column_id=..., value=..., formula=...); NoValue is None
DataCell(column_id, value, formula) ==
    [column_id |-> column_id, value |-> value, formula |-> formula]

\* the value and the formula a cell may carry
CellContents == {<<NoValue, NoValue>>, <<"x", NoValue>>, <<"", NoValue>>, <<NoValue, "=A1">>}

\* the cell lists of the caller's rows: the cell at position c is of column c
DataCells ==
    UNION {{[c \in 1..n |-> DataCell(c, f[c][1], f[c][2])] : f \in [1..n -> CellContents]}
              : n \in 0..MaxRowCells}

\* Row(id=..., cells=...)
DataRow(id, cells) == [id |-> id, cells |-> cells]

\* the rows handed to a call: one or two Row objects
DataRows ==
    {<<DataRow(11, cells)>> : cells \in DataCells}
        \cup {<<DataRow(11, c1), DataRow(12, c2)>> : c1 \in DataCells, c2 \in DataCells}

\* CellSchema.dump: columnId, and value and formula unless None (remove_none)
DumpCell(cell) ==
    [key \in {"columnId"}
              \cup (IF cell.value # NoValue THEN {"value"} ELSE {})
              \cup (IF cell.formula # NoValue THEN {"formula"} ELSE {}) |->
        IF key = "columnId" THEN cell.column_id
        ELSE IF key = "value" THEN cell.value ELSE cell.formula]

\* RowSchema(only=...).dump: the update schema carries the id of the row,
\* the add schema does not
DumpRow(row, schema) ==
    LET cells == [j \in DOMAIN row.cells |-> DumpCell(row.cells[j])]
    IN  IF schema = "update"
        THEN [key \in {"id", "cells"} |-> IF key = "id" THEN row.id ELSE cells]
        ELSE [key \in {"cells"} |-> cells]

\* the cells with a value or a formula
NotEmpty(cell) == cell.value # NoValue \/ cell.formula # NoValue

\* A variant of _add_or_update_row_data that filters the cells of the row
\* it was given instead of those of a copy.
_add_or_update_row_data_in_place(row, schema) ==
    LET updated_row == [row EXCEPT !.cells = SelectSeq(row.cells, NotEmpty)]
    IN  [data |-> DumpRow(updated_row, schema), row |-> updated_row]

\* a shallow copy of the row gets the filtered
\* cell list and is dumped; the row given is the caller's row afterwards
_add_or_update_row_data(row, schema) ==
    LET updated_row == [row EXCEPT !.cells = SelectSeq(row.cells, NotEmpty)]
    IN  [data |-> DumpRow(updated_row, schema), row |-> row]

\* add_rows, update_rows: the list of the data of every row
RowsCall(op, schema) ==
    /\ result.op = "rows"
    /\ result' = [op |-> op, given |-> result.given,
                  rows |-> [i \in DOMAIN result.given |->
                               _add_or_update_row_data(result.given[i], schema).row],
                  data |-> [i \in DOMAIN result.given |->
                               _add_or_update_row_data(result.given[i], schema).data]]
    /\ UNCHANGED <<sheetVars, indexes>>

\* add_row, update_row: the data of the one row
RowCall(op, schema) ==
    /\ result.op = "rows"
    /\ Len(result.given) = 1
    /\ result' = [op |-> op, given |-> result.given,
                  rows |-> <<_add_or_update_row_data(result.given[1], schema).row>>,
                  data |-> <<_add_or_update_row_data(result.given[1], schema).data>>]
    /\ UNCHANGED <<sheetVars, indexes>>

InitRowData ==
    /\ NoSheet
    /\ \E given \in DataRows :
          result = [op |-> "rows", given |-> given, rows |-> given, data |-> <<>>]

AddRows == RowsCall("add_rows", "add")
AddRow == RowCall("add_row", "add")
UpdateRows == RowsCall("update_rows", "update")
UpdateRow == RowCall("update_row", "update")

NextRowData == AddRows \/ AddRow \/ UpdateRows \/ UpdateRow

SpecRowData == InitRowData /\ [][NextRowData]_vars

-----------------------------------------------------------------------------
(* What the properties speak of, read off the sheet's columns, rows and    *)
(* cells and the filter itself rather than off the lookups                 *)

Range(seq) == {seq[i] : i \in DOMAIN seq}

Max(S) == CHOOSE m \in S : \A n \in S : n <= m

\* the column titles of a filter, and the value it asks for a title
FilterTitles(filter) == {p[1] : p \in filter}
FilterValue(filter, title) == (CHOOSE p \in filter : p[1] = title)[2]

\* the titles of a filter in ascending order, and its values in that order
SortedTitlesOf(filter) == SelectSeq(TitleSeq, LAMBDA t : t \in FilterTitles(filter))
QueryOf(filter) ==
    [j \in DOMAIN SortedTitlesOf(filter) |-> FilterValue(filter, SortedTitlesOf(filter)[j])]

\* the cells of a row that lie in a column titled title
CellsUnder(row, title) ==
    {c \in DOMAIN row.cells :
        \E i \in DOMAIN columns :
            columns[i].id = row.cells[c].column_id /\ columns[i].title = title}

\* the row carries the filter's value on every column of the filter
Carries(row, filter) ==
    \A p \in filter :
        /\ CellsUnder(row, p[1]) # {}
        /\ row.cells[Max(CellsUnder(row, p[1]))].value = p[2]

\* the rows of the sheet that carry the filter's values, in sheet order
RECURSIVE CarryingFrom(_, _)
CarryingFrom(filter, i) ==
    IF i > Len(rows) THEN <<>>
    ELSE IF Carries(rows[i], filter)
         THEN <<rows[i].oid>> \o CarryingFrom(filter, i + 1)
         ELSE CarryingFrom(filter, i + 1)
CarryingRows(filter) == CarryingFrom(filter, 1)

\* the last build_index call returned and left an index over the
\* columns key with the flag unique
Registered(key, unique) ==
    /\ result.op = "build_index"
    /\ result.kind = "ok"
    /\ \E i \in DOMAIN result.specs :
          /\ result.specs[i].columns = key
          /\ result.specs[i].unique = unique
          /\ \A j \in DOMAIN result.specs : j > i => result.specs[j].columns # key

\* the last call was get_row with a filter alone
GotRowByFilter ==
    /\ result.op = "get_row"
    /\ result.row_num = NoId
    /\ result.row_id = NoId
    /\ result.filter # NoFilter

\* the filter is answered from a registered index with the flag unique
Resolves(filter, unique) ==
    /\ filter # {}
    /\ \E p \in DOMAIN indexes :
          indexes[p].columns = SortedTitlesOf(filter) /\ indexes[p].unique = unique

\* the registered index the filter is answered from
Resolved(filter) ==
    indexes[CHOOSE p \in DOMAIN indexes : indexes[p].columns = SortedTitlesOf(filter)]

-----------------------------------------------------------------------------
(* Properties of the index engine, under Spec *)

\* C1: once build_index has registered a unique index over columns K,
\* get_row(filter=F) returns the row, for every filter F over the column set
\* of K whose values exactly one row of the sheet carries.
C1_UniqueIndexReturnsTheRow ==
    \A key \in IndexKeys : Registered(key, TRUE) =>
        \A filter \in Filters :
            (FilterTitles(filter) = Range(key) /\ Len(CarryingRows(filter)) = 1) =>
                get_row(indexes, row_num_to_row, row_id_to_row, NoId, NoId, filter)
                    = [kind |-> "row", row |-> CarryingRows(filter)[1]]

\* C2: once build_index has registered a non-unique index over columns K,
\* get_rows(filter=F) returns exactly the rows that carry F's values on K,
\* in the order of the rows at build time.
C2_NonUniqueIndexReturnsTheRowsInOrder ==
    \A key \in IndexKeys : Registered(key, FALSE) =>
        \A filter \in Filters :
            FilterTitles(filter) = Range(key) =>
                get_rows(indexes, filter) = [kind |-> "rows", rows |-> CarryingRows(filter)]

\* C3: get_row(filter=F) and get_rows(filter=F) raise IndexNotFound whenever
\* the ascending tuple of F's column titles is the key of no index that
\* build_index has registered.
C3_UnregisteredFilterIsIndexNotFound ==
    ((GotRowByFilter \/ result.op = "get_rows")
        /\ \A p \in DOMAIN indexes : indexes[p].columns # SortedTitlesOf(result.filter))
    => result.kind = "IndexNotFound"

\* C4: get_row(filter=F) raises IndexNotUnique whenever F is answered from an
\* index built with unique=False, whatever that index holds for F's values,
\* and get_rows(filter=F) on the same index returns a list.
C4_NonUniqueIndexNeedsGetRows ==
    /\ (GotRowByFilter /\ Resolves(result.filter, FALSE)) => result.kind = "IndexNotUnique"
    /\ (result.op = "get_rows" /\ Resolves(result.filter, FALSE)) => result.kind = "rows"

\* C4 witness: get_row raised IndexNotUnique although the non-unique index
\* holds exactly one row under the filter's values
C4_Witness ==
    /\ GotRowByFilter
    /\ Resolves(result.filter, FALSE)
    /\ QueryOf(result.filter) \in DOMAIN Resolved(result.filter).index
    /\ Len(Resolved(result.filter).index[QueryOf(result.filter)]) = 1
    /\ result.kind = "IndexNotUnique"

\* C5: get_row(filter=F) on a built unique index returns None, raising
\* nothing, when no row of the sheet carries F's values.
C5_UniqueMissIsNone ==
    (GotRowByFilter /\ Resolves(result.filter, TRUE) /\ CarryingRows(result.filter) = <<>>)
    => result.kind = "None"

\* C6: get_rows(filter=F) on a unique index returns [get_row(filter=F)] when
\* a row is stored under F's values and [] otherwise; on a non-unique index
\* with nothing stored under F's values it returns [].
C6_GetRowsWrapsTheUniqueRow ==
    (result.op = "get_rows" /\ result.filter # {}
        /\ \E p \in DOMAIN indexes : indexes[p].columns = SortedTitlesOf(result.filter))
    => LET item == Resolved(result.filter)
           stored == QueryOf(result.filter) \in DOMAIN item.index
           one == get_row(indexes, row_num_to_row, row_id_to_row, NoId, NoId, result.filter)
       IN  /\ result.kind = "rows"
           /\ (item.unique /\ stored) =>
                 /\ one.kind = "row"
                 /\ one.row = item.index[QueryOf(result.filter)]
                 /\ result.rows = <<one.row>>
           /\ ~stored => result.rows = <<>>

\* C6 witness: get_rows on a unique index returned the one stored row
C6_Witness ==
    /\ result.op = "get_rows"
    /\ Resolves(result.filter, TRUE)
    /\ QueryOf(result.filter) \in DOMAIN Resolved(result.filter).index
    /\ result.rows = <<Resolved(result.filter).index[QueryOf(result.filter)]>>

-----------------------------------------------------------------------------
(* Properties of the row and cell lookups, under SpecLookup *)

\* a column of the sheet carries the id
KnownColumn(id) == id # NoId /\ \E i \in DOMAIN columns : columns[i].id = id

\* the column of the sheet a known id stands for (the last one, if several
\* columns carry the id)
ColumnOf(id) == columns[Max({i \in DOMAIN columns : columns[i].id = id})]

\* the last call rebuilt the row and cell lookups and returned
Rebuilt == result.op = "_update_row_cell_lookup" /\ result.kind = "ok"

\* the cells of the row whose column is known and carries the title
CellsTitled(row, title) ==
    {c \in DOMAIN row.cells :
        /\ KnownColumn(row.cells[c].column_id)
        /\ ColumnOf(row.cells[c].column_id).title = title}

\* the cells of the row that reference the column id
CellsWithId(row, id) == {c \in DOMAIN row.cells : row.cells[c].column_id = id}

\* C7 as stated: after the rebuild every cell that references a known column
\* is itself what get_cell returns for its column id and for its column's title.
C7_EveryCellIsFoundByItsColumn ==
    Rebuilt =>
        \A r \in DOMAIN rows : \A c \in DOMAIN rows[r].cells :
            LET id == rows[r].cells[c].column_id
            IN  KnownColumn(id) =>
                    /\ GetCell(rows[r], NoTitle, id) = [kind |-> "cell", cell |-> c]
                    /\ ColumnOf(id).title # NoTitle =>
                          GetCell(rows[r], ColumnOf(id).title, NoId)
                              = [kind |-> "cell", cell |-> c]

\* C7 as amended: after the rebuild, for every cell that references a known
\* column, get_cell by its column id returns the last cell of the row with
\* that column id, and get_cell by its column's title returns the last cell
\* of the row whose column carries that title.
C7_LastCellIsFoundByItsColumn ==
    Rebuilt =>
        \A r \in DOMAIN rows : \A c \in DOMAIN rows[r].cells :
            LET id == rows[r].cells[c].column_id
            IN  KnownColumn(id) =>
                    /\ GetCell(rows[r], NoTitle, id)
                          = [kind |-> "cell", cell |-> Max(CellsWithId(rows[r], id))]
                    /\ ColumnOf(id).title # NoTitle =>
                          GetCell(rows[r], ColumnOf(id).title, NoId)
                              = [kind |-> "cell",
                                 cell |-> Max(CellsTitled(rows[r], ColumnOf(id).title))]

\* C7 witness: a rebuilt row with two cells in columns of different ids and
\* one title; get_cell by id finds each, get_cell by title the second
C7_Witness ==
    /\ Rebuilt
    /\ Len(rows[1].cells) = 2
    /\ rows[1].cells[1].column_id # rows[1].cells[2].column_id
    /\ KnownColumn(rows[1].cells[1].column_id)
    /\ KnownColumn(rows[1].cells[2].column_id)
    /\ ColumnOf(rows[1].cells[1].column_id).title # NoTitle
    /\ ColumnOf(rows[1].cells[1].column_id).title = ColumnOf(rows[1].cells[2].column_id).title
    /\ GetCell(rows[1], NoTitle, rows[1].cells[1].column_id).cell = 1
    /\ GetCell(rows[1], ColumnOf(rows[1].cells[1].column_id).title, NoId).cell = 2

\* what get_cell answers from one lookup of the row
Stored(lookup, key, kind, cell) ==
    IF key \in DOMAIN lookup
    THEN kind = "cell" /\ cell = lookup[key]
    ELSE kind = "KeyError"

\* C8 as stated: get_cell returns the cell stored under the key, raises
\* KeyError when the key is absent, and raises ValueError unless exactly one
\* of column_title and column_id is supplied.
C8_GetCellNeedsExactlyOneKey ==
    result.op = "get_cell" =>
        LET row == rows[result.row]
            title == result.column_title # NoTitle
            id == result.column_id # NoId
        IN  /\ (title /\ ~id) =>
                  Stored(row.column_title_to_cell, result.column_title, result.kind, result.cell)
            /\ (id /\ ~title) =>
                  Stored(row.column_id_to_cell, result.column_id, result.kind, result.cell)
            /\ (title = id) => result.kind = "ValueError"

\* C8 as amended: with neither supplied get_cell raises ValueError; with
\* column_title supplied it answers from the title lookup, whether or not
\* column_id is supplied too; with column_id alone, from the id lookup.
C8_GetCellPrefersTheTitle ==
    result.op = "get_cell" =>
        LET row == rows[result.row]
            title == result.column_title # NoTitle
            id == result.column_id # NoId
        IN  /\ title =>
                  Stored(row.column_title_to_cell, result.column_title, result.kind, result.cell)
            /\ (id /\ ~title) =>
                  Stored(row.column_id_to_cell, result.column_id, result.kind, result.cell)
            /\ (~title /\ ~id) => result.kind = "ValueError"

\* C8 witness: both supplied, the id absent from the id lookup, and the
\* cell under the title returned
C8_Witness ==
    /\ result.op = "get_cell"
    /\ result.column_title # NoTitle
    /\ result.column_id # NoId
    /\ result.column_id \notin DOMAIN rows[result.row].column_id_to_cell
    /\ result.kind = "cell"
    /\ result.cell = rows[result.row].column_title_to_cell[result.column_title]

\* C10: a rebuild of the lookups never fails on a cell whose column id is
\* unknown to the sheet: it returns, the cell list of every row is as
\* before, such a cell is in neither lookup, and every cell of a known
\* column is reachable by its column id.
C10_UnknownColumnIsSkipped ==
    [][UpdateRowCellLookupCall =>
        /\ result'.kind = "ok"
        /\ \A r \in DOMAIN rows :
              /\ rows'[r].cells = rows[r].cells
              /\ \A c \in DOMAIN rows[r].cells :
                    LET id == rows[r].cells[c].column_id
                    IN  IF KnownColumn(id)
                        THEN id \in DOMAIN rows'[r].column_id_to_cell
                        ELSE /\ id \notin DOMAIN rows'[r].column_id_to_cell
                             /\ \A t \in DOMAIN rows'[r].column_title_to_cell :
                                   rows'[r].column_title_to_cell[t] # c
    ]_vars

-----------------------------------------------------------------------------
(* Properties of the lookup modes of get_row, under SpecGetRow *)

\* the rows of the sheet with the row number, with the row id
RowsNumbered(num) == {i \in DOMAIN rows : rows[i].num = num}
RowsWithId(id) == {i \in DOMAIN rows : rows[i].id = id}

\* what get_row answers for a row number or row id that rows of the sheet carry
Found(positions, kind, row) ==
    IF positions # {}
    THEN kind = "row" /\ row = rows[Max(positions)].oid
    ELSE kind = "None"

-----------------------------------------------------------------------------
(* Properties of the direct row lookups, under SpecRowLookup *)

\* what a direct lookup must answer for the rows at these positions: one of
\* them if there is any, None otherwise
FoundAmong(positions, kind, row) ==
    IF positions # {}
    THEN kind = "row" /\ \E i \in positions : row = rows[i].oid
    ELSE kind = "None"

\* C11: on any constructed sheet, with or without indexes, get_row(row_num=n)
\* returns a row of sheet.rows that has row number n and get_row(row_id=i) a
\* row that has id i, and each returns None, raising nothing, when no row
\* has it.
C11_DirectLookupFindsTheRow ==
    (result.op = "get_row" /\ result.filter = NoFilter) =>
        /\ (result.row_num # NoId /\ result.row_id = NoId)
              => FoundAmong(RowsNumbered(result.row_num), result.kind, result.row)
        /\ (result.row_num = NoId /\ result.row_id # NoId)
              => FoundAmong(RowsWithId(result.row_id), result.kind, result.row)

-----------------------------------------------------------------------------
(* Properties of sort_rows, under SpecSort *)

\* C12: a sort_rows call that returns gives a new Sheet whose rows are the
\* rows of the response in the returned order, as Row objects that are none
\* of the old sheet's, whose row-number and row-id lookups point to those
\* new objects, and which has no indexes; the sheet passed in, its rows,
\* lookups and indexes, is as before the call.
C12_SortRowsBuildsANewSheet ==
    [][(result'.op = "sort_rows" /\ result'.out.kind = "ok") =>
        LET new == result'.out.sheet
            response == result'.out.response
        IN  /\ Len(new.rows) = Len(response)
            /\ \A j \in DOMAIN response :
                  /\ new.rows[j].id = response[j].id
                  /\ new.rows[j].num = response[j].num
                  /\ new.rows[j].cells = response[j].cells
                  /\ \A k \in DOMAIN rows : new.rows[j].oid # rows[k].oid
                  /\ new.row_num_to_row[response[j].num] = new.rows[j].oid
                  /\ new.row_id_to_row[response[j].id] = new.rows[j].oid
            /\ new.indexes = <<>>
            /\ UNCHANGED <<sheetVars, indexes>>
    ]_vars

\* C12 witness: an indexed sheet of several rows was sorted into another
\* order, and the Sheet returned has no indexes
C12_Witness ==
    /\ result.op = "sort_rows"
    /\ result.out.kind = "ok"
    /\ Len(rows) >= 2
    /\ result.out.response[1].id # rows[1].id
    /\ indexes # <<>>
    /\ result.out.sheet.indexes = <<>>

-----------------------------------------------------------------------------
(* Properties of the loaded cell values, under SpecLoad *)

\* the type of the payload's column a cell of the payload lies in
TypeOf(data, cell) ==
    data.columns[CHOOSE i \in DOMAIN data.columns : data.columns[i].id = cell.columnId].type

\* every cell of the payload lies in a column of the payload
Consistent(data) ==
    \A r \in DOMAIN data.rows : \A c \in DOMAIN data.rows[r].cells :
        \E i \in DOMAIN data.columns : data.columns[i].id = data.rows[r].cells[c].columnId

\* C13: in a loaded sheet every cell of a CHECKBOX column for which the
\* payload carries no value has the value false, one for which it carries
\* true or false has that value, and a cell of a column of another type
\* for which the payload carries no value has the value None.
C13_CheckboxDefaultsToFalse ==
    (result.op = "load" /\ Consistent(result.data)) =>
        /\ result.kind = "ok"
        /\ \A r \in DOMAIN rows : \A c \in DOMAIN rows[r].cells :
              LET sent == result.data.rows[r].cells[c]
                  got == rows[r].cells[c].value
              IN  IF TypeOf(result.data, sent) = "CHECKBOX"
                  THEN got = (IF sent.value = Absent THEN FalseValue ELSE sent.value)
                  ELSE sent.value = Absent => got = NoneValue

\* C13 witness: a loaded row with a CHECKBOX cell the payload gave no value
\* and a CHECKBOX cell the payload gave true, read false and true
C13_Witness ==
    /\ result.op = "load"
    /\ result.kind = "ok"
    /\ Len(rows[1].cells) = 2
    /\ TypeOf(result.data, result.data.rows[1].cells[1]) = "CHECKBOX"
    /\ TypeOf(result.data, result.data.rows[1].cells[2]) = "CHECKBOX"
    /\ result.data.rows[1].cells[1].value = Absent
    /\ result.data.rows[1].cells[2].value = TrueValue
    /\ rows[1].cells[1].value = FalseValue
    /\ rows[1].cells[2].value = TrueValue

\* C14: the load of a payload whose cells lie in its columns raises
\* nothing, whatever strings its date cells carry; a DATE cell with a
\* parsable ISO date string holds the date, a DATETIME or ABSTRACT_DATETIME
\* cell with a parsable ISO datetime string the datetime, a cell of these
\* columns with an unparsable string holds that string, and a value of a
\* column of another type is held as it came.
C14_UnparsableDateIsKept ==
    (result.op = "load" /\ Consistent(result.data)) =>
        /\ result.kind = "ok"
        /\ \A r \in DOMAIN rows : \A c \in DOMAIN rows[r].cells :
              LET sent == result.data.rows[r].cells[c]
                  type == TypeOf(result.data, sent)
                  got == rows[r].cells[c].value
              IN  sent.value # Absent =>
                      IF type = "DATE" /\ sent.value.text \in IsoDates
                      THEN got = Value("date", sent.value.text)
                      ELSE IF type \in {"DATETIME", "ABSTRACT_DATETIME"}
                              /\ sent.value.text \in IsoDatetimes
                           THEN got = Value("datetime", sent.value.text)
                           ELSE got = sent.value

\* C14 witness: a loaded row with a DATE cell that came as a parsable
\* string and holds a date, and a DATE cell that came as an unparsable
\* string and holds it
C14_Witness ==
    /\ result.op = "load"
    /\ result.kind = "ok"
    /\ Len(rows[1].cells) = 2
    /\ TypeOf(result.data, result.data.rows[1].cells[1]) = "DATE"
    /\ TypeOf(result.data, result.data.rows[1].cells[2]) = "DATE"
    /\ rows[1].cells[1].value = Value("date", "1990-01-01")
    /\ result.data.rows[1].cells[2].value = Value("str", "soon")
    /\ rows[1].cells[2].value = Value("str", "soon")

-----------------------------------------------------------------------------
(* Properties of the report fetch, under SpecReport *)

\* C15: a report fetch requests page 1 and then the next page, one after
\* another, exactly while fewer rows are accumulated than the total the
\* first page declared, and only then creates the Report, from the rows of
\* the fetched pages in page order.
C15_NextPageWhileFewerRowsThanDeclared ==
    [][\A c \in DOMAIN result.calls :
          LET before == result.calls[c]
              after == result'.calls[c]
          IN  (before.pc = "loop" /\ after # before) =>
                  IF Len(before.full_data.rows) < before.full_data.totalRowCount
                  THEN /\ after.pc = "request"
                       /\ after.page = before.page + 1
                       /\ after.report = <<>>
                  ELSE /\ after.pc = "done"
                       /\ after.report = before.full_data.rows
    ]_vars

-----------------------------------------------------------------------------
(* Properties of the handling of a response, under SpecRequest *)

-----------------------------------------------------------------------------
(* Properties of get and delete by name or id, under SpecCRUD *)

\* the request of the call on the object of that id
RequestOn(op, id) == IF op = "get" THEN GetRequest(id) ELSE DeleteRequest(id)

\* C17 as stated: get and delete fail with an InvalidArgument condition,
\* before any request is sent, when neither name nor id is supplied and
\* when both are; with exactly one of them they proceed, by name with the
\* list first and then the request on the resolved id.
C17_GetAndDeleteNeedExactlyOne ==
    result.op \in {"get", "delete"} =>
        LET named == TruthyName(result.name)
            withId == TruthyId(result.id)
        IN  /\ (named <=> withId) => (result.kind = "ValueError" /\ result.requests = <<>>)
            /\ (~named /\ withId) => result.requests = <<RequestOn(result.op, result.id)>>
            /\ (named /\ ~withId) =>
                   /\ result.requests # <<>>
                   /\ result.requests[1] = ListRequest

\* C17, amended: get and delete fail with ValueError, before any request is
\* sent, only when neither a non-zero id nor a non-empty name is supplied.
\* With such an id the one request is on that id, whether or not a name is
\* supplied too (the name is ignored and nothing is listed); with a name
\* and no such id the objects are listed first and then the request is on
\* the id of the first object of that name, if there is one with an id.
C17_GetAndDeleteTakeTheIdFirst ==
    result.op \in {"get", "delete"} =>
        LET named == TruthyName(result.name)
            withId == TruthyId(result.id)
            resolved == _get_id(result.name, result.before)
        IN  /\ (~named /\ ~withId) => (result.kind = "ValueError" /\ result.requests = <<>>)
            /\ withId =>
                   /\ result.requests = <<RequestOn(result.op, result.id)>>
                   /\ result.kind # "ValueError"
            /\ (named /\ ~withId) =>
                   IF resolved.kind = "ok"
                   THEN result.requests = <<ListRequest, RequestOn(result.op, resolved.id)>>
                   ELSE result.requests = <<ListRequest>> /\ result.kind = resolved.kind

C17_Witness ==
    /\ result.op = "get"
    /\ result.name = "a"
    /\ result.id = 2
    /\ result.before = <<IndexObject("a", 1), IndexObject("b", 2)>>
    /\ result.kind = "ok"
    /\ result.found = 2
    /\ result.requests = <<GetRequest(2)>>

-----------------------------------------------------------------------------
(* Properties of concurrent fetches, under SpecAsync *)

\* the rows are those of whole pages of the report id, in page order, each
\* page requested by the call
RowsOfOwnPages(call) ==
    LET r == call.full_data.rows
    IN  /\ \A i \in DOMAIN r :
              /\ r[i][1] = call.id
              /\ \E j \in DOMAIN call.requested : call.requested[j] = r[i][2]
              /\ r[i][3] = 1 \/ (i > 1 /\ r[i - 1][2] = r[i][2] /\ r[i - 1][3] = r[i][3] - 1)
        /\ \A i, j \in DOMAIN r : (i < j) => r[i][2] <= r[j][2]

\* C18: concurrent fetches of different reports on one AsyncSmartsheet are
\* independent under every interleaving: a step of one call leaves the page
\* counter, the accumulated rows and every other local of the other calls
\* as they were, the rows a call has accumulated are those of the pages
\* fetched for its own id, in page order, and the Report it returns holds
\* exactly those rows.
C18_ConcurrentFetchesAreIndependent ==
    [][/\ \E c \in DOMAIN result.calls :
             \A d \in DOMAIN result.calls \ {c} : result'.calls[d] = result.calls[d]
       /\ \A c \in DOMAIN result'.calls :
             /\ RowsOfOwnPages(result'.calls[c])
             /\ result'.calls[c].requested = [p \in 1..result'.calls[c].page |-> p]
             /\ (result'.calls[c].pc = "done") =>
                    result'.calls[c].report = result'.calls[c].full_data.rows
    ]_vars

C18_Witness ==
    /\ Len(result.calls) = 2
    /\ result.calls[1].pc = "done"
    /\ result.calls[1].report = <<<<1, 1, 1>>, <<1, 2, 1>>>>
    /\ result.calls[2].pc = "request"
    /\ result.calls[2].page = 2
    /\ result.calls[2].full_data.rows = <<<<2, 1, 1>>>>

-----------------------------------------------------------------------------
(* Properties of grouper, under SpecGrouper *)

\* the chunks one after another
RECURSIVE Chained(_)
Chained(chunks) ==
    IF chunks = <<>> THEN <<>> ELSE Head(chunks) \o Chained(Tail(chunks))

\* C19: for n >= 1 the chunks of grouper(seq, n), one after another, are
\* seq; every chunk but the last has n elements and the last has between 1
\* and n; an empty seq has no chunk.
C19_GrouperCutsIntoChunks ==
    result.op = "grouper" =>
        /\ Chained(result.chunks) = result.seq
        /\ \A i \in DOMAIN result.chunks :
              IF i < Len(result.chunks)
              THEN Len(result.chunks[i]) = result.n
              ELSE 1 <= Len(result.chunks[i]) /\ Len(result.chunks[i]) <= result.n
        /\ (result.seq = <<>>) => (result.chunks = <<>>)

C19_Witness ==
    /\ result.op = "grouper"
    /\ result.seq = <<"a", "b", "a">>
    /\ result.n = 2
    /\ result.chunks = <<(<<"a", "b">>), (<<"a">>)>>

-----------------------------------------------------------------------------
(* Properties of a repeated build_index, under Spec *)

\* the rows of rws that carry the key under the columns cols, in the order
\* of rws, by their identity
RowsUnder(rws, cols, key) ==
    LET carrying == SelectSeq(rws, LAMBDA row : KeyOf(row, cols) = key)
    IN  [j \in DOMAIN carrying |-> carrying[j].oid]

\* what an index over cols holds when it reflects exactly the rows rws:
\* under every key some row carries, the last such row if the index is
\* unique and the list of those rows, each once, if it is not
Reflecting(rws, cols, unique) ==
    [key \in {KeyOf(rws[i], cols) : i \in DOMAIN rws} |->
        IF unique
        THEN RowsUnder(rws, cols, key)[Len(RowsUnder(rws, cols, key))]
        ELSE RowsUnder(rws, cols, key)]

\* C20: a build_index(specs) that returns on a sheet that already has
\* indexes leaves every index registered before registered, and leaves
\* under the columns of every spec an index with the flag of that spec
\* that holds exactly the current rows, whatever it held before.
C20_BuildIndexAgainReplacesAndRescans ==
    [][(result'.op = "build_index" /\ result'.kind = "ok" /\ indexes # <<>>) =>
          /\ \A i \in DOMAIN indexes : IndexPos(indexes', indexes[i].columns) # 0
          /\ \A s \in DOMAIN result'.specs :
                LET spec == result'.specs[s]
                    at == IndexPos(indexes', spec.columns)
                IN  (\A t \in DOMAIN result'.specs :
                        (t > s) => result'.specs[t].columns # spec.columns) =>
                       /\ at # 0
                       /\ indexes'[at].unique = spec.unique
                       /\ indexes'[at].index = Reflecting(rows', spec.columns, spec.unique)
    ]_vars

C20_Witness ==
    /\ result.op = "build_index"
    /\ result.kind = "ok"
    /\ Len(rows) >= 2
    /\ Len(indexes) = 2
    /\ Len(result.specs) = 1
    /\ result.specs[1].columns = indexes[1].columns
    /\ indexes[1].unique = FALSE
    /\ indexes[1].index = Reflecting(rows, indexes[1].columns, FALSE)
    /\ \E key \in DOMAIN indexes[1].index : Len(indexes[1].index[key]) >= 2

-----------------------------------------------------------------------------
(* Properties of a failing build_index, under Spec *)

\* the rows an item of sheet.indexes holds, by their identity
Held(item) ==
    IF item.unique
    THEN {item.index[key] : key \in DOMAIN item.index}
    ELSE UNION {{item.index[key][j] : j \in DOMAIN item.index[key]} : key \in DOMAIN item.index}

\* the positions of the rows that have no cell for a column of some
\* registered index
Lacking(rws, idxs) ==
    {i \in DOMAIN rws : \E k \in DOMAIN idxs : ~HasKey(rws[i], idxs[k].columns)}

\* C21: build_index raises KeyError exactly when some row of the sheet has
\* no cell for a column of a registered index, and it raises at the first
\* such row: the indexes the call registered hold no row that comes after
\* it.
C21_BuildIndexRaisesAtTheFirstRowLackingACell ==
    [][(result'.op = "build_index") =>
          LET lacking == Lacking(rows, indexes')
          IN  /\ (result'.kind = "KeyError") <=> (lacking # {})
              /\ (lacking # {}) =>
                     \A s \in DOMAIN result'.specs :
                         \A i \in DOMAIN rows :
                             rows[i].oid \in Held(indexes'[IndexPos(indexes', result'.specs[s].columns)])
                                 => \A l \in lacking : i <= l
    ]_vars

C21_Witness ==
    /\ result.op = "build_index"
    /\ result.kind = "KeyError"
    /\ Len(rows) = 3
    /\ Lacking(rows, indexes) = {2}
    /\ Len(indexes) = 1
    /\ Held(indexes[1]) = {rows[1].oid}

-----------------------------------------------------------------------------
(* Properties of colliding keys in a unique index, under Spec *)

\* rows i and j, i the earlier, carry the same values on the columns cols
Colliding(rws, cols, i, j) ==
    /\ i < j
    /\ HasKey(rws[i], cols)
    /\ HasKey(rws[j], cols)
    /\ KeyOf(rws[i], cols) = KeyOf(rws[j], cols)

\* C22: after a build_index that names a unique index, rows that carry the
\* same values on its columns have raised nothing (the call fails only for
\* a row lacking a cell); the index holds under those values the last of
\* these rows; no get_row or get_rows with a filter answered by that index
\* returns an earlier one, and get_row(row_id=...) and get_row(row_num=...)
\* still return it.
C22_UniqueIndexKeepsTheLaterRow ==
    (result.op = "build_index") =>
        /\ (result.kind = "KeyError") => (Lacking(rows, indexes) # {})
        /\ (result.kind = "ok") =>
              \A s \in DOMAIN result.specs :
                LET cols == result.specs[s].columns
                    at == IndexPos(indexes, cols)
                IN  indexes[at].unique =>
                      \A i, j \in DOMAIN rows :
                        (Colliding(rows, cols, i, j)
                            /\ \A l \in DOMAIN rows : (l > j) => ~Colliding(rows, cols, j, l)) =>
                          /\ indexes[at].index[KeyOf(rows[i], cols)] = rows[j].oid
                          /\ \A filter \in Filters \ {{}} :
                                (IndexPos(indexes, FilterColumns(filter)) = at) =>
                                  /\ get_row(indexes, row_num_to_row, row_id_to_row,
                                             NoId, NoId, filter).row # rows[i].oid
                                  /\ \A h \in DOMAIN get_rows(indexes, filter).rows :
                                        get_rows(indexes, filter).rows[h] # rows[i].oid
                          /\ get_row(indexes, row_num_to_row, row_id_to_row,
                                     NoId, rows[i].id, NoFilter)
                                 = [kind |-> "row", row |-> rows[i].oid]
                          /\ get_row(indexes, row_num_to_row, row_id_to_row,
                                     rows[i].num, NoId, NoFilter)
                                 = [kind |-> "row", row |-> rows[i].oid]

C22_Witness ==
    /\ result.op = "build_index"
    /\ result.kind = "ok"
    /\ Len(rows) = 3
    /\ Len(indexes) = 1
    /\ indexes[1].unique
    /\ indexes[1].columns = <<TitleSeq[1]>>
    /\ Colliding(rows, indexes[1].columns, 1, 3)
    /\ ~Colliding(rows, indexes[1].columns, 1, 2)
    /\ indexes[1].index[KeyOf(rows[1], indexes[1].columns)] = rows[3].oid
    /\ get_row(indexes, row_num_to_row, row_id_to_row, NoId, NoId,
               {<<TitleSeq[1], KeyOf(rows[1], indexes[1].columns)[1]>>}).row = rows[3].oid

-----------------------------------------------------------------------------
(* Properties of what changes the indexes, under SpecFrame *)

\* C23: only build_index changes sheet.indexes. A get_row or get_rows,
\* whatever it returns or raises, and a change of sheet.rows or of a cell
\* value leave every index as it was, and a filter query is answered from
\* what the index holds since the last build_index.
C23_OnlyBuildIndexChangesTheIndexes ==
    [][(result'.op # "build_index") =>
          /\ indexes' = indexes
          /\ (result'.op = "get_row") =>
                 LET r == get_row(indexes, row_num_to_row, row_id_to_row,
                                  NoId, NoId, result'.filter)
                 IN  result'.kind = r.kind /\ result'.row = r.row
          /\ (result'.op = "get_rows") =>
                 /\ result'.kind = get_rows(indexes, result'.filter).kind
                 /\ result'.rows = get_rows(indexes, result'.filter).rows
    ]_vars

\* a unique index on the first column still answers "x" with the first row
\* although the value of its cell is now "y"
C23_Witness ==
    /\ result.op = "get_row"
    /\ result.filter = {<<TitleSeq[1], "x">>}
    /\ result.kind = "row"
    /\ rows # <<>>
    /\ result.row = rows[1].oid
    /\ rows[1].cells[1].value = "y"

-----------------------------------------------------------------------------
(* Properties of the order of the columns of an index, under Spec *)

\* the column titles of a key
KeyTitles(cols) == {cols[j] : j \in DOMAIN cols}

\* C24: a get_row or get_rows whose filter is over the set of columns of a
\* registered index does not raise IndexNotFound, in whatever order the
\* spec of the index listed its columns.
C24_IndexIsFoundInAnyColumnOrder ==
    (result.op \in {"get_row", "get_rows"} /\ result.filter # {}
        /\ \E k \in DOMAIN indexes : KeyTitles(indexes[k].columns) = FilterTitles(result.filter))
      => result.kind # "IndexNotFound"

\* C25: whatever build_index calls were made on the sheet, whose rows do
\* not change, no list of a non-unique index holds a row twice.
C25_NonUniqueIndexHoldsEachRowOnce ==
    \A k \in DOMAIN indexes : ~indexes[k].unique =>
        \A key \in DOMAIN indexes[k].index :
            \A i, j \in DOMAIN indexes[k].index[key] :
                (indexes[k].index[key][i] = indexes[k].index[key][j]) => (i = j)

\* C26: a build_index that fails because a row lacks a cell for a key
\* column leaves the indexes of the sheet as they were before the call.
C26_FailedBuildIndexChangesNothing ==
    [][(result'.op = "build_index" /\ result'.kind = "KeyError") => (indexes' = indexes)]_vars

-----------------------------------------------------------------------------
(* Properties of the column lookup, under SpecLookup *)

\* C28: with the column lookup rebuilt, get_column(column_title=t) returns
\* for every title t of a column of sheet.columns, with or without an id,
\* the last column of that title, and make_cell succeeds for t.
C28_EveryTitledColumnIsFound ==
    \A i \in DOMAIN columns : (columns[i].title # NoTitle) =>
        LET t == columns[i].title
            c == get_column(column_title_to_column, column_id_to_column, t, NoId)
        IN  /\ c.kind = "column"
            /\ columns[c.column].title = t
            /\ \A j \in DOMAIN columns : (columns[j].title = t) => (j <= c.column)
            /\ make_cell(column_title_to_column, column_id_to_column, columns, t, "x").kind
                   = "cell"

-----------------------------------------------------------------------------
(* Properties of the end of a report fetch, under SpecFiniteReport *)

\* C27: the fetch of a finite report ends, with a Report or with an error,
\* whatever the pages declare and bring.
C27_ReportFetchTerminates ==
    <>(result.calls[1].pc \in {"done", "raised"})

-----------------------------------------------------------------------------
(* Properties of delete_rows, under SpecDeleteRows *)

\* the ids of the requests k..Len(requests), one after another
RECURSIVE IdsFrom(_, _)
IdsFrom(requests, k) ==
    IF k > Len(requests) THEN <<>> ELSE requests[k] \o IdsFrom(requests, k + 1)

-----------------------------------------------------------------------------
(* Properties of the payload of added and updated rows, under SpecRowData *)

\* C30: the payload of add_row, add_rows, update_row and update_rows holds
\* for each row exactly its cells with a value or a formula, in the order
\* of the row, and the caller's rows hold all their cells afterwards, the
\* empty ones included.
C30_PayloadLeavesOutEmptyCellsOnly ==
    (result.op \in {"add_rows", "add_row", "update_rows", "update_row"}) =>
        /\ result.rows = result.given
        /\ Len(result.data) = Len(result.given)
        /\ \A i \in DOMAIN result.given :
              LET cells == result.given[i].cells
                  kept == {c \in DOMAIN cells : NotEmpty(cells[c])}
                  sent == result.data[i]["cells"]
              IN  /\ Len(sent) = Cardinality(kept)
                  /\ \A c \in kept :
                        LET j == Cardinality({d \in kept : d <= c})
                        IN  /\ sent[j]["columnId"] = cells[c].column_id
                            /\ ("value" \in DOMAIN sent[j]) <=> (cells[c].value # NoValue)
                            /\ ("value" \in DOMAIN sent[j]) => (sent[j]["value"] = cells[c].value)
                            /\ ("formula" \in DOMAIN sent[j]) <=> (cells[c].formula # NoValue)
                            /\ ("formula" \in DOMAIN sent[j]) =>
                                   (sent[j]["formula"] = cells[c].formula)

C30_Witness ==
    /\ result.op = "update_rows"
    /\ Len(result.given) = 2
    /\ result.rows[1].cells = <<DataCell(1, NoValue, NoValue), DataCell(2, "", NoValue)>>
    /\ Len(result.data[1]["cells"]) = 1
    /\ result.data[1]["cells"][1]["columnId"] = 2
    /\ result.data[1]["id"] = 11

====
